---- MODULE Spec2Model ----
(***************************************************************************)
(* Model of the I-V sweep controller of src/src/main.py: IVAppCC (the GUI  *)
(* thread's handlers and the sweep worker thread start_sweep) together     *)
(* with the SimulatedInstrument it creates and a VISA instrument whose     *)
(* calls may fail.                                                         *)
(*                                                                         *)
(* Numbers.  Every voltage, current, setpoint, limit and delay is an       *)
(* integer count of 1e-4 of its unit (1 V = 10000, 1 A = 10000,            *)
(* 1 s = 10000), so that the deduplication tolerance EPS = 1e-4 is 1 and   *)
(* the 3-decimal setpoint format rounds to multiples of 10.  A power is    *)
(* the integer product of a voltage and a current.                         *)
(***************************************************************************)
EXTENDS Integers, Sequences, FiniteSets, TLC

(***************************************************************************)
(* Bounds of the model.                                                    *)
(***************************************************************************)
\* number of worker threads that may exist at the same time
MaxWorkers == 2
\* longest sweep (total_steps) the model runs
MaxSteps == 2

(***************************************************************************)
(* Program constants, in units of 1e-4.                                    *)
(***************************************************************************)
\* EPS = 1e-4 (main.py:466)
EPS == 1
\* Isc = 5.0 A (main.py:719)
Isc == 50000
\* Voc = 25 V (main.py:720)
Voc == 250000
\* the "+ 5" of the simulated protection trip (main.py:733, 746)
TripOffset == 50000
\* one step of the ":.3f" setpoint format, 0.001 (main.py:415, 421)
Milli == 10

Abs(x) == IF x < 0 THEN -x ELSE x
Max(a, b) == IF a >= b THEN a ELSE b

\* Python's None and a present value
None == << >>
Some(x) == << x >>

(***************************************************************************)
(* Text of an entry widget: a number, the empty string, or text that       *)
(* float() rejects.                                                        *)
(***************************************************************************)
Num(x) == [t |-> "num", n |-> x]
EmptyTxt == [t |-> "empty", n |-> 0]
BadTxt == [t |-> "bad", n |-> 0]

\* float(text) raises ValueError unless the text is a number
FloatRaises(txt) == txt.t # "num"
\* float(text) if text else None, raising ValueError on non-numeric text
LimitRaises(txt) == txt.t = "bad"
ParseLimit(txt) == IF txt.t = "num" THEN Some(txt.n) ELSE None

(***************************************************************************)
(* f"{v:.3f}" followed by the instrument's float(): v rounded to the       *)
(* nearest 0.001, an exact tie going to the even neighbour.                *)
(***************************************************************************)
Fmt3(v) ==
    LET r == v % Milli
        lo == v - r
    IN  IF r * 2 < Milli THEN lo
        ELSE IF r * 2 > Milli THEN lo + Milli
        ELSE IF (lo \div Milli) % 2 = 0 THEN lo ELSE lo + Milli

(***************************************************************************)
(* The single-diode model of SimulatedInstrument.query, tabulated at the   *)
(* setpoints the model sweeps over (values of the Python expressions       *)
(* rounded to 1e-4):                                                       *)
(*   V = Voc + n*Vt*log(1 - I/Isc),  I = Isc*(1 - exp((V - Voc)/(n*Vt)))   *)
(* with n = 1.5 and Vt = 0.7.  The voltages 24.9461, 24.8894 and 24.8294   *)
(* of ExpTable stand for the doubles the first expression returns          *)
(* (24.946142040893072, ...), which is what a query returns and a caller   *)
(* writes back; 0, 4 and 29.89 are the other replies of MEAS:VOLT?.        *)
(***************************************************************************)
LogTable ==
    { <<0, 250000>>, <<2500, 249461>>, <<5000, 248894>>, <<7500, 248294>> }

ExpTable ==
    { <<249000, 4542>>, <<249500, 2325>>, <<250000, 0>>, <<250500, -2439>>,
      <<249461, 2500>>, <<248894, 5000>>, <<248294, 7500>>,
      <<0, 50000>>, <<40000, 50000>>, <<298900, -5216735>> }

Lookup(table, x) == (CHOOSE p \in table : p[1] = x)[2]

\* V = Voc + n * Vt * math.log(1 - I / Isc) if I < Isc else 0
DiodeV(I) == IF I < Isc THEN Lookup(LogTable, I) ELSE 0
\* the diode equation with half the short-circuit current
DiodeI_HalfIsc(V) == Lookup(ExpTable, V) \div 2

\* I = Isc * (1 - math.exp((V - Voc) / (n * Vt)))
DiodeI(V) == Lookup(ExpTable, V)

(***************************************************************************)
(* SimulatedInstrument (main.py:654-760).  A command is its keyword, its   *)
(* textual argument and its numeric argument; "x in command" of the code   *)
(* is membership in the set of keywords the command text contains.         *)
(***************************************************************************)
Cmd(c, txt, num) == [cmd |-> c, txt |-> txt, num |-> num]

SimInit ==
    [FUNC |-> "CURR", current |-> 0, voltage |-> 0,
     VOLT_PROT_ON |-> FALSE, VOLT_PROT |-> None,
     CURR_PROT_ON |-> FALSE, CURR_PROT |-> None]

Contained(c) ==
    (CASE c.cmd = "FUNC" -> {"FUNC", c.txt}
       [] c.cmd = "CURR" -> {"CURR"}
       [] c.cmd = "VOLT" -> {"VOLT"}
       [] c.cmd = "VOLT:PROT" -> {"VOLT", "VOLT:PROT"}
       [] c.cmd = "CURR:PROT" -> {"CURR", "CURR:PROT"}
       [] c.cmd = "VOLT:PROT:STAT" ->
            {"VOLT", "VOLT:PROT"} \cup
            (IF c.txt = "ON" THEN {"VOLT:PROT:STAT ON"} ELSE {"VOLT:PROT:STAT OFF"})
       [] c.cmd = "CURR:PROT:STAT" ->
            {"CURR", "CURR:PROT"} \cup
            (IF c.txt = "ON" THEN {"CURR:PROT:STAT ON"} ELSE {"CURR:PROT:STAT OFF"})
       [] OTHER -> {})

In(kw, c) == kw \in Contained(c)

\* write whose setpoint branches also take the protection commands
SimWrite_NoExclusion(st, c) ==
    IF In("FUNC", c) THEN [st EXCEPT !.FUNC = c.txt]
    ELSE IF In("CURR", c) THEN [st EXCEPT !.current = c.num]
    ELSE IF In("VOLT", c) THEN [st EXCEPT !.voltage = c.num]
    ELSE st

SimWrite(st, c) ==
    IF In("FUNC", c) THEN [st EXCEPT !.FUNC = c.txt]
    ELSE IF In("CURR", c) /\ ~In("CURR:PROT", c) THEN [st EXCEPT !.current = c.num]
    ELSE IF In("VOLT", c) /\ ~In("VOLT:PROT", c) THEN [st EXCEPT !.voltage = c.num]
    ELSE IF In("VOLT:PROT:STAT ON", c) THEN [st EXCEPT !.VOLT_PROT_ON = TRUE]
    ELSE IF In("VOLT:PROT:STAT OFF", c) THEN [st EXCEPT !.VOLT_PROT_ON = FALSE]
    ELSE IF In("VOLT:PROT", c) THEN [st EXCEPT !.VOLT_PROT = Some(c.num)]
    ELSE IF In("CURR:PROT:STAT ON", c) THEN [st EXCEPT !.CURR_PROT_ON = TRUE]
    ELSE IF In("CURR:PROT:STAT OFF", c) THEN [st EXCEPT !.CURR_PROT_ON = FALSE]
    ELSE IF In("CURR:PROT", c) THEN [st EXCEPT !.CURR_PROT = Some(c.num)]
    ELSE st

\* A reply is the text the instrument returns: a word (s) or a number (n).
Word(s) == [s |-> s, n |-> 0]
Number(n) == [s |-> "", n |-> n]

SimMeasVolt_NoTrip(st) ==
    IF st.FUNC = "CURR"
    THEN Number(Max(DiodeV(st.current), 0))
    ELSE Number(st.voltage)

SimMeasVolt(st) ==
    IF st.FUNC = "CURR"
    THEN LET V == DiodeV(st.current)
         IN  IF st.VOLT_PROT_ON /\ st.VOLT_PROT # None /\ V > st.VOLT_PROT[1]
             THEN Number(st.VOLT_PROT[1] + TripOffset)
             ELSE Number(Max(V, 0))
    ELSE Number(st.voltage)

\* MEAS:CURR? that trips whether or not the protection is enabled
SimMeasCurr_IgnoreEnable(st) ==
    IF st.FUNC = "VOLT"
    THEN LET I == Max(DiodeI(st.voltage), 0)
         IN  IF st.CURR_PROT # None /\ I > st.CURR_PROT[1]
             THEN Number(st.CURR_PROT[1] + TripOffset)
             ELSE Number(I)
    ELSE Number(st.current)

SimMeasCurr(st) ==
    IF st.FUNC = "VOLT"
    THEN LET I == Max(DiodeI(st.voltage), 0)
         IN  IF st.CURR_PROT_ON /\ st.CURR_PROT # None /\ I > st.CURR_PROT[1]
             THEN Number(st.CURR_PROT[1] + TripOffset)
             ELSE Number(I)
    ELSE Number(st.current)

\* query that answers FUNC? like any unknown query
SimQuery_NoFunc(st, q) ==
    IF q = "MEAS:VOLT?" THEN SimMeasVolt(st)
    ELSE IF q = "MEAS:CURR?" THEN SimMeasCurr(st)
    ELSE Number(0)

SimQuery(st, q) ==
    IF q = "MEAS:VOLT?" THEN SimMeasVolt(st)
    ELSE IF q = "MEAS:CURR?" THEN SimMeasCurr(st)
    ELSE IF q = "FUNC?" THEN Word(st.FUNC)
    ELSE Number(0)

(***************************************************************************)
(* A VISA instrument (pyvisa resource).  Every call may raise, a query     *)
(* returns whatever the hardware measures; the values offered lie just     *)
(* below, at and just above the limits the model's requests use.  Two of   *)
(* the voltages are 1e-4 apart: for 24.8899 and 24.89 the binary doubles   *)
(* give abs(a - b) > 1e-4 false, as exact arithmetic does.                 *)
(***************************************************************************)
VisaVolts == {248899, 248900, 248902}
VisaCurrs == {6500, 6502}
VisaFuncs == {"CURR", "VOLT"}

(***************************************************************************)
(* What the user may have typed and selected when a sweep is requested.    *)
(* The numbers are ones for which the code's double arithmetic (the        *)
(* quotient of total_steps, the ":.3f" format) gives what exact arithmetic *)
(* gives: CC 0.5 A to 0.25 A or 0.5005 A by 0.25 A or 0.0004 A, CV 24.95 V *)
(* to 24.9 V or 25 V by 0.05 V, limits 24.89 V and 0.65 A, delay 0.5 s.    *)
(***************************************************************************)
Simulated == "Simulated Instrument"
VisaAddress == "USB0::INSTR"
Instruments == {Simulated, VisaAddress, ""}
Modes == {"CC", "CV"}
SenseModes == {"2-Wire", "4-Wire"}

StartTexts(mode) ==
    {BadTxt} \cup
    (IF mode = "CC" THEN {Num(5000)} ELSE {Num(249500)})
EndTexts(mode) ==
    {BadTxt} \cup
    (IF mode = "CC" THEN {Num(2500), Num(5000), Num(5005)}
                    ELSE {Num(249000), Num(250000)})
StepTexts(mode) ==
    {BadTxt, Num(0)} \cup
    (IF mode = "CC" THEN {Num(2500), Num(-2500), Num(4), Num(-4)}
                    ELSE {Num(500), Num(-500)})
VoltageLimitTexts == {EmptyTxt, BadTxt, Num(248900)}
CurrentLimitTexts == {EmptyTxt, BadTxt, Num(6500)}
SleepTexts == {BadTxt, Num(-5000), Num(5000)}

Request(mode, instr, start, end, step, vlim, clim, sleep) ==
    [mode |-> mode, instr |-> instr, start |-> start, end |-> end, step |-> step,
     vlim |-> vlim, clim |-> clim, sleep |-> sleep]

NoRequest ==
    Request("", "", EmptyTxt, EmptyTxt, EmptyTxt, EmptyTxt, EmptyTxt, EmptyTxt)

(***************************************************************************)
(* The locals of start_sweep, computed from the request as the code does.  *)
(***************************************************************************)
\* lines 289-308: any float() of the try block raises ValueError
InputError(req) ==
    \/ FloatRaises(req.start) \/ FloatRaises(req.end) \/ FloatRaises(req.step)
    \/ LimitRaises(req.vlim) \/ LimitRaises(req.clim)
    \/ FloatRaises(req.sleep)

voltage_limit(req) == ParseLimit(req.vlim)
current_limit(req) == ParseLimit(req.clim)

\* lines 313-322
MissingLimit_CCOnly(req) ==
    req.mode = "CC" /\ voltage_limit(req) = None

MissingLimit(req) ==
    \/ req.mode = "CC" /\ voltage_limit(req) = None
    \/ req.mode = "CV" /\ current_limit(req) = None

\* line 325
ZeroStep_Never(req) == FALSE

ZeroStep(req) == req.step.n = 0

\* line 332
NoInstrument(req) == req.instr = ""

\* The message box of the first failing check, "" when the request passes.
Rejection(req) ==
    IF InputError(req) THEN "Input Error"
    ELSE IF MissingLimit(req) THEN "Safety"
    ELSE IF ZeroStep(req) THEN "Input Error"
    ELSE IF NoInstrument(req) THEN "Connection Error"
    ELSE ""

mode_mapping(mode) == IF mode = "CC" THEN "CURR" ELSE "VOLT"

\* a step that is never turned toward the end value
sweep_step_Up(req) == req.step.n

\* lines 414, 420
sweep_step(req) == IF req.end.n >= req.start.n THEN req.step.n ELSE -req.step.n

\* decimal inputs <<start, end, |step|>> whose quotient falls below the whole
\* number in double arithmetic: (0.5004 - 0.5) / 0.0004 = 0.9999999999998899
\* and (0.4 - 0.6) / -0.2 = 0.9999999999999998
FloatShort == { <<5000, 5004, 4>>, <<6000, 4000, 2000>> }

\* line 425: the quotient of two doubles, truncated by int()
total_steps(req) ==
    LET quotient == Abs(req.end.n - req.start.n) \div Abs(sweep_step(req))
    IN  (IF <<req.start.n, req.end.n, Abs(sweep_step(req))>> \in FloatShort
         THEN quotient - 1 ELSE quotient) + 1

\* lines 415, 421
setpoint_cmd(req, v) ==
    Cmd(IF req.mode = "CC" THEN "CURR" ELSE "VOLT", "", Fmt3(v))

\* lines 456-459: the exception the protection check raises, "" when it passes
Protection_NonStrict(req, voltage, actual_current) ==
    IF voltage_limit(req) # None /\ voltage >= voltage_limit(req)[1]
    THEN "Voltage exceeded protection limit."
    ELSE IF current_limit(req) # None /\ actual_current >= current_limit(req)[1]
    THEN "Current exceeded protection limit."
    ELSE ""

Protection(req, voltage, actual_current) ==
    IF voltage_limit(req) # None /\ voltage > voltage_limit(req)[1]
    THEN "Voltage exceeded protection limit."
    ELSE IF current_limit(req) # None /\ actual_current > current_limit(req)[1]
    THEN "Current exceeded protection limit."
    ELSE ""

Sample(i, v) == [current |-> i, voltage |-> v, power |-> v * i]

\* line 467
Differs_Both(samples, voltage, actual_current) ==
    \/ Len(samples) = 0
    \/ /\ Abs(actual_current - samples[Len(samples)].current) > EPS
       /\ Abs(voltage - samples[Len(samples)].voltage) > EPS

Differs(samples, voltage, actual_current) ==
    \/ Len(samples) = 0
    \/ Abs(actual_current - samples[Len(samples)].current) > EPS
    \/ Abs(voltage - samples[Len(samples)].voltage) > EPS

\* a store that overwrites the last sample with a reading within EPS of it
Store_ReplaceLast(samples, voltage, actual_current) ==
    IF Differs(samples, voltage, actual_current)
    THEN Append(samples, Sample(actual_current, voltage))
    ELSE [samples EXCEPT ![Len(samples)] = Sample(actual_current, voltage)]

\* lines 465-470
Store(samples, voltage, actual_current) ==
    IF Differs(samples, voltage, actual_current)
    THEN Append(samples, Sample(actual_current, voltage))
    ELSE samples

(***************************************************************************)
(* State.                                                                  *)
(*   sweep_running, stop_requested  the flags of IVAppCC (lines 141-142)   *)
(*   start_button                   state of the Start button              *)
(*   plot                           what the figure shows: the number of   *)
(*                                  points of the curves and the summary   *)
(*   wk                             the worker threads: position (pc) and  *)
(*                                  locals of each start_sweep call        *)
(*   finishing                      the number of worker threads that have *)
(*                                  run line 643 and not yet line 644, the *)
(*                                  last statement of start_sweep          *)
(*   loaded_curves, file_listbox,   the comparison window (ComparisonApp): *)
(*   stats_text                     the curve records in load order, the   *)
(*                                  names its list box shows and the text  *)
(*                                  of its statistics panel                *)
(***************************************************************************)
VARIABLES sweep_running, stop_requested, start_button, plot, wk, finishing

VARIABLES loaded_curves, file_listbox, stats_text
\* the error box of the last load_csv_file call, "" when it showed none
VARIABLE load_error

\* the comparison window's variables; the sweep never touches them
cvars == <<loaded_curves, file_listbox, stats_text, load_error>>
\* a SimulatedInstrument driven on its own: self.state and the last call made
VARIABLES sim_state, sim_call
svars == <<sim_state, sim_call>>
\* one run of an early revision of the sweep (GUI_CV.py, tests/All_CC.py,
\* measure.py): the program, its position, its inputs, the setpoint variable
\* of its while loop, the last INPUT command written and the length of its lists
VARIABLE early

vars == <<sweep_running, stop_requested, start_button, plot, wk, finishing, cvars, svars, early>>

\* the statistics panel: its first line and one entry per curve
Panel(text, curves) == [text |-> text, curves |-> curves]

\* ComparisonApp.__init__: no curve, an empty list box, an empty panel
ComparisonInit ==
    /\ loaded_curves = << >>
    /\ file_listbox = << >>
    /\ stats_text = Panel("", << >>)
    /\ load_error = ""

\* a call of the instrument: write or query, its command, the text returned
Call(op, c, reply) == [op |-> op, c |-> c, reply |-> reply]

\* SimulatedInstrument.__init__ (lines 660-670), no call made yet
SimulatorIdle ==
    /\ sim_state = SimInit
    /\ sim_call = Call("", Cmd("", "", 0), Number(0))

\* no early revision was started
EarlyIdle ==
    early = [prog |-> "", pc |-> "idle", start |-> 0, end |-> 0, step |-> 0,
             setpoint |-> 0, input |-> "", n |-> 0, dialog |-> ""]

Workers == 1..MaxWorkers

NoLoad == [kind |-> "none", open |-> FALSE, st |-> SimInit]

Blank ==
    [pc |-> "idle", req |-> NoRequest, load |-> NoLoad, log |-> << >>,
     value |-> 0, count |-> 0, voltage |-> 0, actual_current |-> 0,
     samples |-> << >>, exc |-> "", dialog |-> "",
     pmp |-> None, vmp |-> None, imp |-> None,
     summary_text |-> "", message |-> "", csv |-> None]

Init ==
    /\ sweep_running = FALSE
    /\ stop_requested = FALSE
    /\ start_button = "normal"
    /\ plot = [points |-> 0, summary |-> ""]
    /\ wk = [w \in Workers |-> Blank]
    /\ finishing = 0
    /\ ComparisonInit
    /\ EarlyIdle
    /\ SimulatorIdle

(***************************************************************************)
(* The GUI thread: buttons and key bindings.                               *)
(***************************************************************************)
Alive == Cardinality({w \in Workers : wk[w].pc # "idle"}) + finishing

FreeSlot(w) ==
    /\ Alive < MaxWorkers
    /\ wk[w].pc = "idle"
    /\ \A u \in Workers : u < w => wk[u].pc # "idle"

\* start_sweep_thread without its guard
start_sweep_thread_NoGuard ==
    \E w \in Workers :
        /\ FreeSlot(w)
        /\ sweep_running' = TRUE
        /\ wk' = [wk EXCEPT ![w].pc = "spawned"]
        /\ UNCHANGED <<stop_requested, start_button, plot, finishing, cvars, svars, early>>

start_sweep_thread ==
    IF sweep_running
    THEN UNCHANGED vars
    ELSE \E w \in Workers :
            /\ FreeSlot(w)
            /\ sweep_running' = TRUE
            /\ wk' = [wk EXCEPT ![w].pc = "spawned"]
            /\ UNCHANGED <<stop_requested, start_button, plot, finishing, cvars, svars, early>>

\* the Start button runs its command only while it is enabled
ClickStart ==
    /\ start_button = "normal"
    /\ start_sweep_thread

on_enter ==
    IF ~sweep_running THEN start_sweep_thread ELSE UNCHANGED vars

request_stop ==
    /\ stop_requested' = TRUE
    /\ UNCHANGED <<sweep_running, start_button, plot, wk, finishing, cvars, svars, early>>

ClickStop == request_stop

on_escape ==
    IF sweep_running THEN request_stop ELSE UNCHANGED vars

(***************************************************************************)
(* Adapter calls of the worker.  A call on the VISA instrument may raise;  *)
(* the log keeps every call in order with its outcome.                     *)
(***************************************************************************)
Outcomes(r) == IF r.load.kind = "visa" THEN BOOLEAN ELSE {TRUE}

Logged(r, op, c, ok) ==
    [r EXCEPT !.log = Append(@, [op |-> op, c |-> c, ok |-> ok])]

Written(r, c) ==
    [Logged(r, "write", c, TRUE) EXCEPT
        !.load.st = IF r.load.kind = "sim" THEN SimWrite(@, c) ELSE @]

\* the outer "except Exception" (lines 636-638)
Raised(r, e) == [r EXCEPT !.exc = e, !.dialog = "Error", !.pc = "error_dialog"]

\* the loop's "except Exception" (lines 502-506)
LoopRaised(r, e) ==
    [r EXCEPT !.exc = e, !.dialog = "Protection Triggered", !.pc = "fault_dialog"]

At(w, pc) == wk[w].pc = pc

\* a configuration write whose failure is ignored
ConfigWrite_IgnoreError(w, c, next) ==
    /\ \E ok \in Outcomes(wk[w]) :
          wk' = [wk EXCEPT ![w] =
                    IF ok THEN [Written(@, c) EXCEPT !.pc = next]
                    ELSE [Logged(@, "write", c, FALSE) EXCEPT !.pc = next]]
    /\ UNCHANGED <<sweep_running, stop_requested, start_button, plot, finishing, cvars, svars, early>>

\* a configuration write: on to next, or into the outer handler
ConfigWrite(w, c, next) ==
    /\ \E ok \in Outcomes(wk[w]) :
          wk' = [wk EXCEPT ![w] =
                    IF ok THEN [Written(@, c) EXCEPT !.pc = next]
                    ELSE Raised(Logged(@, "write", c, FALSE), "VisaIOError")]
    /\ UNCHANGED <<sweep_running, stop_requested, start_button, plot, finishing, cvars, svars, early>>

(***************************************************************************)
(* The worker thread: start_sweep (lines 281-644), one action per stretch  *)
(* of code between two blocking calls (adapter call or message box).       *)
(***************************************************************************)
RequestsOf(mode) ==
    { Request(mode, instr, start, end, step, vlim, clim, sleep) :
        instr \in Instruments, start \in StartTexts(mode), end \in EndTexts(mode),
        step \in StepTexts(mode), vlim \in VoltageLimitTexts,
        clim \in CurrentLimitTexts, sleep \in SleepTexts }

Requests == UNION { RequestsOf(mode) : mode \in Modes }

\* start_sweep without line 287: the stop flag is left as it was
Validate_KeepStop(w) ==
    /\ At(w, "spawned")
    /\ \E req \in Requests :
          IF Rejection(req) # ""
          THEN /\ wk' = [wk EXCEPT ![w] =
                            [@ EXCEPT !.pc = "reject_dialog", !.dialog = Rejection(req)]]
               /\ UNCHANGED start_button
          ELSE /\ sweep_step(req) # 0 => total_steps(req) <= MaxSteps
               /\ wk' = [wk EXCEPT ![w] = [@ EXCEPT !.pc = "open", !.req = req]]
               /\ start_button' = "disabled"
    /\ UNCHANGED <<sweep_running, stop_requested, plot, finishing, cvars, svars, early>>

\* lines 287-340: reset the stop flag, read and validate the fields; a
\* rejected request shows its message box, an accepted one disables Start
Validate(w) ==
    /\ At(w, "spawned")
    /\ stop_requested' = FALSE
    /\ \E req \in Requests :
          IF Rejection(req) # ""
          THEN /\ wk' = [wk EXCEPT ![w] =
                            [@ EXCEPT !.pc = "reject_dialog", !.dialog = Rejection(req)]]
               /\ UNCHANGED start_button
          ELSE /\ sweep_step(req) # 0 => total_steps(req) <= MaxSteps
               /\ wk' = [wk EXCEPT ![w] = [@ EXCEPT !.pc = "open", !.req = req]]
               /\ start_button' = "disabled"
    /\ UNCHANGED <<sweep_running, plot, finishing, cvars, svars, early>>

\* lines 306, 315, 320, 327, 334: the box is dismissed and sweep_running
\* is reset; the start_button.config of the next line is left to the thread
Reject(w) ==
    /\ At(w, "reject_dialog")
    /\ sweep_running' = FALSE
    /\ wk' = [wk EXCEPT ![w] = Blank]
    /\ finishing' = finishing + 1
    /\ UNCHANGED <<stop_requested, start_button, plot, cvars, svars, early>>

\* lines 344-349
Open(w) ==
    /\ At(w, "open")
    /\ IF wk[w].req.instr = Simulated
       THEN wk' = [wk EXCEPT ![w] =
                     [@ EXCEPT !.load = [kind |-> "sim", open |-> TRUE, st |-> SimInit],
                               !.pc = "func_q"]]
       ELSE \E ok \in BOOLEAN :
               wk' = [wk EXCEPT ![w] =
                        IF ok
                        THEN [@ EXCEPT !.load = [kind |-> "visa", open |-> TRUE,
                                                 st |-> SimInit],
                                       !.pc = "rst"]
                        ELSE Raised(@, "VisaIOError")]
    /\ UNCHANGED <<sweep_running, stop_requested, start_button, plot, finishing, cvars, svars, early>>

\* line 350
Reset(w) == At(w, "rst") /\ ConfigWrite(w, Cmd("*RST", "", 0), "cls")

\* line 351
Clear(w) == At(w, "cls") /\ ConfigWrite(w, Cmd("*CLS", "", 0), "func_q")

\* line 356
QueryFunction(w) ==
    /\ At(w, "func_q")
    /\ LET r == wk[w]
           q == Cmd("FUNC?", "", 0)
           replies == IF r.load.kind = "sim" THEN {SimQuery(r.load.st, "FUNC?").s}
                      ELSE VisaFuncs
       IN  \E ok \in Outcomes(r), reply \in replies :
              wk' = [wk EXCEPT ![w] =
                       IF ok
                       THEN [Logged(r, "query", q, TRUE) EXCEPT
                               !.pc = IF reply # mode_mapping(r.req.mode)
                                      THEN "func_w" ELSE "vprot_stat"]
                       ELSE Raised(Logged(r, "query", q, FALSE), "VisaIOError")]
    /\ UNCHANGED <<sweep_running, stop_requested, start_button, plot, finishing, cvars, svars, early>>

\* line 357
WriteFunction(w) ==
    /\ At(w, "func_w")
    /\ ConfigWrite(w, Cmd("FUNC", mode_mapping(wk[w].req.mode), 0), "vprot_stat")

\* the voltage protection left as it was when no limit is configured
VoltProtStat_SkipWhenAbsent(w) ==
    /\ At(w, "vprot_stat")
    /\ IF voltage_limit(wk[w].req) # None
       THEN ConfigWrite(w, Cmd("VOLT:PROT:STAT", "ON", 0), "vprot")
       ELSE /\ wk' = [wk EXCEPT ![w].pc = "cprot_stat"]
            /\ UNCHANGED <<sweep_running, stop_requested, start_button, plot, finishing, cvars, svars, early>>

\* lines 360-364, first write
VoltProtStat(w) ==
    /\ At(w, "vprot_stat")
    /\ IF voltage_limit(wk[w].req) # None
       THEN ConfigWrite(w, Cmd("VOLT:PROT:STAT", "ON", 0), "vprot")
       ELSE ConfigWrite(w, Cmd("VOLT:PROT:STAT", "OFF", 0), "cprot_stat")

\* line 362
VoltProt(w) ==
    /\ At(w, "vprot")
    /\ ConfigWrite(w, Cmd("VOLT:PROT", "", voltage_limit(wk[w].req)[1]), "cprot_stat")

\* lines 366-370, first write
CurrProtStat(w) ==
    /\ At(w, "cprot_stat")
    /\ IF current_limit(wk[w].req) # None
       THEN ConfigWrite(w, Cmd("CURR:PROT:STAT", "ON", 0), "cprot")
       ELSE ConfigWrite(w, Cmd("CURR:PROT:STAT", "OFF", 0), "sense")

\* line 368
CurrProt(w) ==
    /\ At(w, "cprot")
    /\ ConfigWrite(w, Cmd("CURR:PROT", "", current_limit(wk[w].req)[1]), "sense")

\* lines 373-375
Sense(w) ==
    /\ At(w, "sense")
    /\ \E sense \in SenseModes :
          ConfigWrite(w, Cmd("REM:SENS", IF sense = "4-Wire" THEN "ON" ELSE "OFF", 0),
                      "input_on")

\* lines 378-428: INPUT ON, then the plot is cleared, the sample lists are
\* created and total_steps is computed (a zero step would divide by zero)
InputOn(w) ==
    /\ At(w, "input_on")
    /\ LET r == wk[w]
           c == Cmd("INPUT", "ON", 0)
       IN  \E ok \in Outcomes(r) :
              IF ok
              THEN /\ plot' = [points |-> 0, summary |-> ""]
                   /\ wk' = [wk EXCEPT ![w] =
                               IF sweep_step(r.req) = 0
                               THEN Raised(Written(r, c), "ZeroDivisionError")
                               ELSE [Written(r, c) EXCEPT
                                       !.samples = << >>, !.value = r.req.start.n,
                                       !.pc = "setpoint0"]]
              ELSE /\ wk' = [wk EXCEPT ![w] =
                               Raised(Logged(r, "write", c, FALSE), "VisaIOError")]
                   /\ UNCHANGED plot
    /\ UNCHANGED <<sweep_running, stop_requested, start_button, finishing, cvars, svars, early>>

\* lines 431-432: the first setpoint, then time.sleep(sleep_time), which
\* raises ValueError for a negative delay
InitialSetpoint(w) ==
    /\ At(w, "setpoint0")
    /\ LET r == wk[w]
           c == setpoint_cmd(r.req, r.req.start.n)
       IN  \E ok \in Outcomes(r) :
              wk' = [wk EXCEPT ![w] =
                       IF ~ok THEN Raised(Logged(r, "write", c, FALSE), "VisaIOError")
                       ELSE IF r.req.sleep.n < 0
                       THEN Raised(Written(r, c), "ValueError")
                       ELSE [Written(r, c) EXCEPT !.pc = "input_on2"]]
    /\ UNCHANGED <<sweep_running, stop_requested, start_button, plot, finishing, cvars, svars, early>>

\* lines 435-436
InputOnAgain(w) ==
    At(w, "input_on2") /\ ConfigWrite(w, Cmd("INPUT", "ON", 0), "loop")

(***************************************************************************)
(* The measurement loop (lines 439-509).                                   *)
(***************************************************************************)
InLoop(r) == r.pc \in {"loop", "meas_v", "meas_i"}

\* the loop head with the stop check left out
LoopHead_NoStop(w) ==
    /\ At(w, "loop")
    /\ LET r == wk[w]
           c == setpoint_cmd(r.req, r.value)
       IN  IF r.count >= total_steps(r.req)
           THEN wk' = [wk EXCEPT ![w].pc = "input_off"]
           ELSE \E ok \in Outcomes(r) :
                   wk' = [wk EXCEPT ![w] =
                            IF ok THEN [Written(r, c) EXCEPT !.pc = "meas_v"]
                            ELSE LoopRaised(Logged(r, "write", c, FALSE), "VisaIOError")]
    /\ UNCHANGED <<sweep_running, stop_requested, start_button, plot, finishing, cvars, svars, early>>

\* lines 439-448: the range is exhausted, or the stop flag is seen and the
\* "Sweep Stopped" box is shown, or the setpoint is written
LoopHead(w) ==
    /\ At(w, "loop")
    /\ LET r == wk[w]
           c == setpoint_cmd(r.req, r.value)
       IN  IF r.count >= total_steps(r.req)
           THEN wk' = [wk EXCEPT ![w].pc = "input_off"]
           ELSE IF stop_requested
           THEN wk' = [wk EXCEPT ![w] =
                         [@ EXCEPT !.dialog = "Sweep Stopped", !.pc = "stop_dialog"]]
           ELSE \E ok \in Outcomes(r) :
                   wk' = [wk EXCEPT ![w] =
                            IF ok THEN [Written(r, c) EXCEPT !.pc = "meas_v"]
                            ELSE LoopRaised(Logged(r, "write", c, FALSE), "VisaIOError")]
    /\ UNCHANGED <<sweep_running, stop_requested, start_button, plot, finishing, cvars, svars, early>>

\* line 443: the box is dismissed, break
StopDialog(w) ==
    /\ At(w, "stop_dialog")
    /\ wk' = [wk EXCEPT ![w].pc = "input_off"]
    /\ UNCHANGED <<sweep_running, stop_requested, start_button, plot, finishing, cvars, svars, early>>

\* line 451
MeasureVoltage(w) ==
    /\ At(w, "meas_v")
    /\ LET r == wk[w]
           q == Cmd("MEAS:VOLT?", "", 0)
           replies == IF r.load.kind = "sim" THEN {SimQuery(r.load.st, "MEAS:VOLT?").n}
                      ELSE VisaVolts
       IN  \E ok \in Outcomes(r), reply \in replies :
              wk' = [wk EXCEPT ![w] =
                       IF ok
                       THEN [Logged(r, "query", q, TRUE) EXCEPT
                               !.voltage = reply, !.pc = "meas_i"]
                       ELSE LoopRaised(Logged(r, "query", q, FALSE), "VisaIOError")]
    /\ UNCHANGED <<sweep_running, stop_requested, start_button, plot, finishing, cvars, svars, early>>

\* lines 452-509: the current is read, the protection check runs, the
\* sample is stored and drawn, and the setpoint advances
MeasureCurrent(w) ==
    /\ At(w, "meas_i")
    /\ LET r == wk[w]
           q == Cmd("MEAS:CURR?", "", 0)
           replies == IF r.load.kind = "sim" THEN {SimQuery(r.load.st, "MEAS:CURR?").n}
                      ELSE VisaCurrs
       IN  \E ok \in Outcomes(r), reply \in replies :
              LET got == [Logged(r, "query", q, ok) EXCEPT !.actual_current = reply]
                  e == Protection(r.req, r.voltage, reply)
                  kept == Store(r.samples, r.voltage, reply)
              IN  IF ~ok
                  THEN /\ wk' = [wk EXCEPT ![w] =
                                   LoopRaised(Logged(r, "query", q, FALSE), "VisaIOError")]
                       /\ UNCHANGED plot
                  ELSE IF e # ""
                  THEN /\ wk' = [wk EXCEPT ![w] = LoopRaised(got, e)]
                       /\ UNCHANGED plot
                  ELSE /\ wk' = [wk EXCEPT ![w] =
                                   [got EXCEPT !.samples = kept,
                                               !.count = r.count + 1,
                                               !.value = r.value + sweep_step(r.req),
                                               !.pc = "loop"]]
                       /\ plot' = [plot EXCEPT !.points = Len(kept)]
    /\ UNCHANGED <<sweep_running, stop_requested, start_button, finishing, cvars, svars, early>>

\* the "Protection Triggered" box followed by the next iteration
FaultDialog_Continue(w) ==
    /\ At(w, "fault_dialog")
    /\ wk' = [wk EXCEPT ![w].pc = "loop"]
    /\ UNCHANGED <<sweep_running, stop_requested, start_button, plot, finishing, cvars, svars, early>>

\* line 506: the "Protection Triggered" box is dismissed, break
FaultDialog(w) ==
    /\ At(w, "fault_dialog")
    /\ wk' = [wk EXCEPT ![w].pc = "input_off"]
    /\ UNCHANGED <<sweep_running, stop_requested, start_button, plot, finishing, cvars, svars, early>>

(***************************************************************************)
(* After the loop (lines 511-644).                                         *)
(***************************************************************************)
\* line 512
InputOff(w) ==
    At(w, "input_off") /\ ConfigWrite(w, Cmd("INPUT", "OFF", 0), "close")

\* line 513
Close(w) ==
    /\ At(w, "close")
    /\ LET r == wk[w]
           c == Cmd("close", "", 0)
       IN  \E ok \in Outcomes(r) :
              wk' = [wk EXCEPT ![w] =
                       IF ok
                       THEN [Logged(r, "close", c, TRUE) EXCEPT
                               !.load.open = FALSE, !.pc = "analyze"]
                       ELSE Raised(Logged(r, "close", c, FALSE), "VisaIOError")]
    /\ UNCHANGED <<sweep_running, stop_requested, start_button, plot, finishing, cvars, svars, early>>

Powers(samples) == [k \in DOMAIN samples |-> samples[k].power]

\* max(powers)
MaxOf(seq) == CHOOSE m \in {seq[k] : k \in DOMAIN seq} : \A k \in DOMAIN seq : seq[k] <= m

\* powers.index(pmp) returning the last occurrence
IndexOf_Last(seq, x) == CHOOSE k \in DOMAIN seq : seq[k] = x /\ \A j \in (k + 1)..Len(seq) : seq[j] # x

\* powers.index(pmp)
IndexOf(seq, x) == CHOOSE k \in DOMAIN seq : seq[k] = x /\ \A j \in 1..(k - 1) : seq[j] # x

\* lines 532-540
Analysed(r) ==
    IF Len(r.samples) > 0
    THEN LET powers == Powers(r.samples)
             pmp == MaxOf(powers)
             idx == IndexOf(powers, pmp)
         IN  [r EXCEPT !.pmp = Some(pmp), !.vmp = Some(r.samples[idx].voltage),
                       !.imp = Some(r.samples[idx].current),
                       !.summary_text = "Pmp Vmp Imp"]
    ELSE [r EXCEPT !.pmp = None, !.vmp = None, !.imp = None,
                   !.summary_text = "Sweep completed with no power data."]

\* line 633: "if pmp" is false for None and for 0.0
Message(r) ==
    IF r.pmp # None /\ r.pmp[1] # 0
    THEN "Sweep completed. Pmp Vmp Imp"
    ELSE "Sweep completed with no power data."

\* lines 515-634: final plot, analysis, summary annotation, output folder,
\* CSV file when the box is ticked, completion message box; creating the
\* folder or the file may raise OSError
Analyze(w) ==
    /\ At(w, "analyze")
    /\ LET r == Analysed(wk[w])
       IN  /\ plot' = [points |-> Len(r.samples), summary |-> r.summary_text]
           /\ \E save_csv \in BOOLEAN, io_ok \in BOOLEAN :
                 wk' = [wk EXCEPT ![w] =
                          IF ~io_ok THEN Raised(r, "OSError")
                          ELSE [r EXCEPT
                                  !.csv = IF save_csv THEN Some(r.samples) ELSE None,
                                  !.message = Message(r),
                                  !.dialog = "Sweep Complete",
                                  !.pc = "complete_dialog"]]
    /\ UNCHANGED <<sweep_running, stop_requested, start_button, finishing, cvars, svars, early>>

\* line 634: the box is dismissed
CompleteDialog(w) ==
    /\ At(w, "complete_dialog")
    /\ wk' = [wk EXCEPT ![w].pc = "finally"]
    /\ UNCHANGED <<sweep_running, stop_requested, start_button, plot, finishing, cvars, svars, early>>

\* line 638: the box is dismissed
ErrorDialog(w) ==
    /\ At(w, "error_dialog")
    /\ wk' = [wk EXCEPT ![w].pc = "finally"]
    /\ UNCHANGED <<sweep_running, stop_requested, start_button, plot, finishing, cvars, svars, early>>

\* a finally block that leaves sweep_running set
Finally_KeepRunning(w) ==
    /\ At(w, "finally")
    /\ wk' = [wk EXCEPT ![w] = Blank]
    /\ finishing' = finishing + 1
    /\ UNCHANGED <<sweep_running, stop_requested, start_button, plot, cvars, svars, early>>

\* lines 642-643: only line 644 is left to this thread
Finally(w) ==
    /\ At(w, "finally")
    /\ sweep_running' = FALSE
    /\ wk' = [wk EXCEPT ![w] = Blank]
    /\ finishing' = finishing + 1
    /\ UNCHANGED <<stop_requested, start_button, plot, cvars, svars, early>>

\* line 644 (307, 316, 321, 328, 335 after a rejection) in a thread that has
\* reset sweep_running; the thread ends
EnableStart ==
    /\ finishing > 0
    /\ start_button' = "normal"
    /\ finishing' = finishing - 1
    /\ UNCHANGED <<sweep_running, stop_requested, plot, wk, cvars, svars, early>>

Worker(w) ==
    \/ Validate(w) \/ Reject(w) \/ Open(w) \/ Reset(w) \/ Clear(w)
    \/ QueryFunction(w) \/ WriteFunction(w)
    \/ VoltProtStat(w) \/ VoltProt(w) \/ CurrProtStat(w) \/ CurrProt(w)
    \/ Sense(w) \/ InputOn(w) \/ InitialSetpoint(w) \/ InputOnAgain(w)
    \/ LoopHead(w) \/ StopDialog(w) \/ MeasureVoltage(w) \/ MeasureCurrent(w)
    \/ FaultDialog(w) \/ InputOff(w) \/ Close(w) \/ Analyze(w)
    \/ CompleteDialog(w) \/ ErrorDialog(w) \/ Finally(w)

Next ==
    \/ ClickStart
    \/ on_enter
    \/ ClickStop
    \/ on_escape
    \/ EnableStart
    \/ \E w \in Workers : Worker(w)

Spec == Init /\ [][Next]_vars

(***************************************************************************)
(* Vocabulary of the properties.                                           *)
(***************************************************************************)
IsInputOff(e) == e.op = "write" /\ e.c.cmd = "INPUT" /\ e.c.txt = "OFF"
IsInputOn(e) == e.op = "write" /\ e.c.cmd = "INPUT" /\ e.c.txt = "ON"
IsClose(e) == e.op = "close"
HasAdapter(r) == r.load.kind # "none"
Count(log, P(_)) == Cardinality({k \in DOMAIN log : P(log[k])})
\* the second INPUT ON (line 435) is the last call before the loop
EnteredLoop(r) == Count(r.log, LAMBDA e : IsInputOn(e) /\ e.ok) = 2
\* the worker has left the validation: its request was accepted
Accepted(r) == r.pc \notin {"idle", "spawned", "reject_dialog"}
\* the worker stands at the end of start_sweep's try statement
AtEnd(r) == r.pc = "finally"
AfterLoop(r) ==
    r.pc \in {"stop_dialog", "fault_dialog", "input_off", "close", "analyze",
              "complete_dialog"}

(***************************************************************************)
(* C1.  Every path of start_sweep on which an adapter was opened ends with *)
(* the adapter shut down: INPUT OFF written, then close called.            *)
(* The code leaves the adapter open when a call of the configuration or    *)
(* the first setpoint's delay raises: lines 512-513 are skipped.           *)
(***************************************************************************)
C1_AdapterAlwaysShutDown ==
    \A w \in Workers :
        (AtEnd(wk[w]) /\ HasAdapter(wk[w])) =>
            \E i, j \in DOMAIN wk[w].log :
                /\ i < j
                /\ IsInputOff(wk[w].log[i]) /\ wk[w].log[i].ok
                /\ IsClose(wk[w].log[j]) /\ wk[w].log[j].ok

(***************************************************************************)
(* C2.  On every exit of the measurement loop INPUT OFF is written exactly *)
(* once and close is called exactly once, and they are the last two calls  *)
(* on the adapter.  The code skips close when INPUT OFF raises.            *)
(***************************************************************************)
C2_CleanupExactlyOnce ==
    \A w \in Workers :
        LET log == wk[w].log
        IN  (AtEnd(wk[w]) /\ EnteredLoop(wk[w])) =>
                /\ Count(log, IsInputOff) = 1
                /\ Count(log, IsClose) = 1
                /\ Len(log) >= 2
                /\ IsInputOff(log[Len(log) - 1])
                /\ IsClose(log[Len(log)])

(***************************************************************************)
(* C3.  A request in CC mode without voltage limit, or in CV mode without  *)
(* current limit, is never accepted: a worker past the validation has the  *)
(* limit of its mode; the worker showing the "Safety" box has created no   *)
(* adapter and issued no call; dismissing the box resets sweep_running.    *)
(***************************************************************************)
C3_LimitPresent ==
    \A w \in Workers :
        /\ Accepted(wk[w]) =>
              /\ wk[w].req.mode = "CC" => wk[w].req.vlim.t = "num"
              /\ wk[w].req.mode = "CV" => wk[w].req.clim.t = "num"
        /\ wk[w].dialog = "Safety" =>
              ~HasAdapter(wk[w]) /\ wk[w].log = << >> /\ sweep_running

C3_BackToIdle ==
    \A w \in Workers :
        (wk[w].dialog = "Safety" /\ wk'[w] # wk[w]) =>
            ~sweep_running' /\ wk'[w].pc = "idle"

C3_MandatoryLimit == []C3_LimitPresent /\ [][C3_BackToIdle]_vars

C3_Witness == \E w \in Workers : wk[w].dialog = "Safety"

(***************************************************************************)
(* C4.  A request with a non-numeric field, a zero step or no instrument   *)
(* is never accepted; the worker that rejects it has no adapter, no call   *)
(* and no samples, the rejection leaves the plot as it was and resets      *)
(* sweep_running, so that start_sweep_thread accepts the next request.     *)
(***************************************************************************)
C4_RequestValid ==
    \A w \in Workers :
        /\ Accepted(wk[w]) =>
              /\ \A f \in {"start", "end", "step", "sleep"} : wk[w].req[f].t = "num"
              /\ wk[w].req.vlim.t # "bad" /\ wk[w].req.clim.t # "bad"
              /\ wk[w].req.step.n # 0
              /\ wk[w].req.instr # ""
        /\ wk[w].pc = "reject_dialog" =>
              /\ ~HasAdapter(wk[w]) /\ wk[w].log = << >> /\ wk[w].samples = << >>
              /\ wk[w].dialog \in {"Input Error", "Safety", "Connection Error"}

C4_NoSideEffect ==
    \A w \in Workers :
        /\ wk'[w].pc = "reject_dialog" => plot' = plot
        /\ (wk[w].pc = "reject_dialog" /\ wk'[w] # wk[w]) =>
              plot' = plot /\ ~sweep_running' /\ wk'[w] = Blank

C4_ValidationFailure == []C4_RequestValid /\ [][C4_NoSideEffect]_vars

C4_Witness ==
    \E w \in Workers :
        /\ wk[w].pc = "reject_dialog"
        /\ wk[w].dialog \in {"Input Error", "Connection Error"}
        /\ plot.points > 0

(***************************************************************************)
(* C5.  Whatever the sign of the step the user entered, the setpoint moves *)
(* from start toward end.  The code only negates the step when             *)
(* end < start, so a negative step sweeps away from end.                   *)
(***************************************************************************)
C5_TowardEnd ==
    \A w \in Workers :
        LET r == wk[w]
        IN  (InLoop(r) /\ r.count >= 1) =>
               /\ r.req.end.n > r.req.start.n => r.value > r.req.start.n
               /\ r.req.end.n < r.req.start.n => r.value < r.req.start.n

(***************************************************************************)
(* C6.  A start request made while sweep_running is true starts no worker, *)
(* and at most one worker holds an open adapter at any time.               *)
(***************************************************************************)
C6_OneOpenAdapter ==
    Cardinality({w \in Workers : wk[w].load.open}) <= 1

C6_NoSpawnWhileRunning ==
    sweep_running =>
        \A w \in Workers : wk'[w].pc = "spawned" => wk[w].pc = "spawned"

C6_ReentrancyGuard == []C6_OneOpenAdapter /\ [][C6_NoSpawnWhileRunning]_vars

\* a sweep holds its adapter while the Start button is enabled again
C6_Witness ==
    /\ sweep_running
    /\ start_button = "normal"
    /\ \E w \in Workers : wk[w].load.open

(***************************************************************************)
(* C7.  As claimed: from the moment the stop flag is set during the loop   *)
(* the SampleSet no longer grows, and the loop is left with the "Sweep     *)
(* Stopped" report.  The code polls the flag once per iteration, so the    *)
(* iteration in flight still stores its sample (or faults), and a flag set *)
(* during the last iteration is never reported.                            *)
(***************************************************************************)
C7_StopIsImmediate ==
    \A w \in Workers :
        (stop_requested /\ InLoop(wk[w])) =>
            /\ wk'[w].samples = wk[w].samples
            /\ ~InLoop(wk'[w]) => wk'[w].dialog = "Sweep Stopped"

C7_Original == [][C7_StopIsImmediate]_vars

(***************************************************************************)
(* C7, amended.  When the stop check at the head of an iteration finds the *)
(* flag set after N samples were accepted, the worker shows "Sweep         *)
(* Stopped", and from the loop's exit to the end of the sweep the          *)
(* SampleSet keeps exactly those N entries, which are the ones saved.      *)
(***************************************************************************)
C7_StopAtCheck ==
    \A w \in Workers :
        LET r == wk[w]
        IN  /\ ( /\ r.pc = "loop" /\ r.count < total_steps(r.req)
                 /\ stop_requested /\ wk'[w] # r ) =>
                    /\ wk'[w].pc = "stop_dialog"
                    /\ wk'[w].dialog = "Sweep Stopped"
                    /\ wk'[w].samples = r.samples
            /\ (AfterLoop(r) /\ wk'[w].pc # "idle") =>
                    /\ wk'[w].samples = r.samples
                    /\ wk'[w].csv \in {None, Some(r.samples)}

C7_Cancellation == [][C7_StopAtCheck]_vars

C7_Witness ==
    \E w \in Workers :
        /\ wk[w].pc = "close"
        /\ wk[w].dialog = "Sweep Stopped"
        /\ Len(wk[w].samples) = 1

(***************************************************************************)
(* C8.  The protection check fails exactly when a present limit is         *)
(* exceeded (strictly), and it runs before the sample is stored: every     *)
(* stored sample and every measurement the loop went on from respects each *)
(* limit that is present.                                                  *)
(***************************************************************************)
Exceeds(limit, x) == limit.t = "num" /\ x > limit.n

C8_Protection ==
    \A w \in Workers :
        LET r == wk[w]
        IN  /\ \A k \in DOMAIN r.samples :
                  /\ ~Exceeds(r.req.vlim, r.samples[k].voltage)
                  /\ ~Exceeds(r.req.clim, r.samples[k].current)
            /\ (r.pc = "loop" /\ r.count >= 1) =>
                  /\ ~Exceeds(r.req.vlim, r.voltage)
                  /\ ~Exceeds(r.req.clim, r.actual_current)
            /\ r.exc = "Voltage exceeded protection limit." =>
                  Exceeds(r.req.vlim, r.voltage)
            /\ r.exc = "Current exceeded protection limit." =>
                  /\ Exceeds(r.req.clim, r.actual_current)
                  /\ ~Exceeds(r.req.vlim, r.voltage)

\* a measurement equal to the limit was stored
C8_Witness ==
    \E w \in Workers :
        /\ Len(wk[w].samples) > 0
        /\ wk[w].req.vlim.t = "num"
        /\ wk[w].samples[Len(wk[w].samples)].voltage = wk[w].req.vlim.n

(***************************************************************************)
(* C9.  With the SimulatedInstrument in CC mode and voltage limit L: while *)
(* the setpoint last written has a modeled voltage above L the instrument  *)
(* reports L + 5, the sweep leaves the loop with the voltage protection    *)
(* fault, no stored sample belongs to a setpoint whose modeled voltage     *)
(* exceeds L, and the SampleSet stays as it is once the loop is left.      *)
(***************************************************************************)
SimulatedCC(r) == r.load.kind = "sim" /\ r.req.mode = "CC"

\* the modeled voltage of the setpoint the instrument holds is above L
Tripping(r) == DiodeV(r.load.st.current) > r.req.vlim.n

C9_TripState ==
    \A w \in Workers :
        LET r == wk[w]
            L == r.req.vlim.n
        IN  SimulatedCC(r) =>
               /\ \A k \in DOMAIN r.samples : DiodeV(r.samples[k].current) <= L
               /\ (r.pc = "meas_i" /\ Tripping(r)) =>
                     r.voltage = L + TripOffset /\ r.voltage >= L
               /\ (r.pc = "loop" /\ r.count >= 1) => ~Tripping(r)
               /\ ( /\ r.pc \in {"fault_dialog", "input_off", "close", "analyze"}
                    /\ Tripping(r) /\ r.dialog # "Sweep Stopped" ) =>
                     /\ r.exc = "Voltage exceeded protection limit."
                     /\ r.dialog = "Protection Triggered"
                     /\ r.voltage = L + TripOffset

C9_NoFurtherSample ==
    \A w \in Workers :
        (wk[w].exc # "" /\ wk'[w].pc # "idle") => wk'[w].samples = wk[w].samples

C9_ProtectionTrip == []C9_TripState /\ [][C9_NoFurtherSample]_vars

\* the trip came after a sample had been stored
C9_Witness ==
    \E w \in Workers :
        /\ SimulatedCC(wk[w])
        /\ wk[w].pc = "fault_dialog"
        /\ wk[w].exc = "Voltage exceeded protection limit."
        /\ wk[w].voltage = wk[w].req.vlim.n + TripOffset
        /\ Len(wk[w].samples) = 1

(***************************************************************************)
(* C10.  A measurement that passed the protection check is appended        *)
(* exactly when the SampleSet is empty or the measurement differs from the *)
(* last entry by more than EPS in voltage or in current; so two adjacent   *)
(* entries always differ by more than EPS in voltage or in current.        *)
(***************************************************************************)
Apart(a, b) == a - b > EPS \/ b - a > EPS

C10_AdjacentApart ==
    \A w \in Workers :
        \A k \in 1..(Len(wk[w].samples) - 1) :
            \/ Apart(wk[w].samples[k].voltage, wk[w].samples[k + 1].voltage)
            \/ Apart(wk[w].samples[k].current, wk[w].samples[k + 1].current)

C10_AppendRule ==
    \A w \in Workers :
        LET old == wk[w].samples
            last == old[Len(old)]
            v == wk'[w].voltage
            i == wk'[w].actual_current
        IN  (wk[w].pc = "meas_i" /\ wk'[w].pc = "loop") =>
               IF Len(old) > 0 /\ ~Apart(v, last.voltage) /\ ~Apart(i, last.current)
               THEN wk'[w].samples = old
               ELSE /\ Len(wk'[w].samples) = Len(old) + 1
                    /\ SubSeq(wk'[w].samples, 1, Len(old)) = old
                    /\ wk'[w].samples[Len(old) + 1].voltage = v
                    /\ wk'[w].samples[Len(old) + 1].current = i

C10_Deduplication == []C10_AdjacentApart /\ [][C10_AppendRule]_vars

\* a second measurement within EPS of the first, not equal to it, was dropped
C10_Witness ==
    \E w \in Workers :
        /\ wk[w].pc = "loop" /\ wk[w].count = 2
        /\ Len(wk[w].samples) = 1
        /\ wk[w].voltage # wk[w].samples[1].voltage

(***************************************************************************)
(* C11.  INPUT ON is written only after the function was queried (and      *)
(* written where it differed), both protection settings and the sense mode *)
(* were written, every call before it having succeeded; a sweep in which a *)
(* configuration call failed never writes INPUT ON.  On the simulated      *)
(* instrument the function is then CURR for CC and VOLT for CV.            *)
(***************************************************************************)
IsWrite(e, cmd) == e.op = "write" /\ e.c.cmd = cmd
IsFuncQuery(e) == e.op = "query" /\ e.c.cmd = "FUNC?"

C11_InputOnAfterConfig ==
    \A w \in Workers :
        LET r == wk[w]
            log == r.log
        IN  \A k \in DOMAIN log :
               IsInputOn(log[k]) =>
                  /\ \A j \in 1..(k - 1) : log[j].ok
                  /\ \E f \in 1..(k - 1) :
                        /\ IsFuncQuery(log[f])
                        /\ \E v \in (f + 1)..(k - 1) :
                              /\ IsWrite(log[v], "VOLT:PROT:STAT")
                              /\ log[v].c.txt = "ON" =>
                                    IsWrite(log[v + 1], "VOLT:PROT")
                              /\ \E c \in (v + 1)..(k - 1) :
                                    /\ IsWrite(log[c], "CURR:PROT:STAT")
                                    /\ log[c].c.txt = "ON" =>
                                          IsWrite(log[c + 1], "CURR:PROT")
                                    /\ \E s \in (c + 1)..(k - 1) :
                                          IsWrite(log[s], "REM:SENS")
                  /\ r.load.kind = "sim" => r.load.st.FUNC = mode_mapping(r.req.mode)
                  /\ (\E f \in 1..(k - 1) : IsWrite(log[f], "FUNC")) =>
                        \E f \in 1..(k - 1) :
                            IsWrite(log[f], "FUNC") /\ log[f].c.txt = mode_mapping(r.req.mode)

\* INPUT ON went out on a simulated instrument switched to VOLT for CV
C11_Witness ==
    \E w \in Workers :
        /\ wk[w].pc = "setpoint0"
        /\ wk[w].req.mode = "CV"
        /\ wk[w].load.kind = "sim"
        /\ wk[w].load.st.FUNC = "VOLT"
        /\ IsInputOn(wk[w].log[Len(wk[w].log)])

(***************************************************************************)
(* C12.  While the loop runs, for the voltage and for the current: when    *)
(* the limit is configured the sweep has switched the protection on and    *)
(* written the limit, and nothing switched it off; when the limit is       *)
(* absent the sweep has switched the protection off and written no limit.  *)
(* The writes do not depend on what the instrument held before.  The       *)
(* simulated instrument's state agrees with the writes.                    *)
(***************************************************************************)
Programmed(r, stat, prot, limit) ==
    LET log == r.log
        Stat(e, txt) == IsWrite(e, stat) /\ e.c.txt = txt
    IN  IF limit # None
        THEN /\ \E k \in DOMAIN log : Stat(log[k], "ON") /\ log[k].ok
             /\ \E k \in DOMAIN log :
                   IsWrite(log[k], prot) /\ log[k].ok /\ log[k].c.num = limit[1]
             /\ \A k \in DOMAIN log : ~Stat(log[k], "OFF")
             /\ \A k \in DOMAIN log : IsWrite(log[k], prot) => log[k].c.num = limit[1]
        ELSE /\ \E k \in DOMAIN log : Stat(log[k], "OFF") /\ log[k].ok
             /\ \A k \in DOMAIN log : ~Stat(log[k], "ON") /\ ~IsWrite(log[k], prot)

C12_ProtectionNotStale ==
    \A w \in Workers :
        LET r == wk[w]
            st == r.load.st
        IN  InLoop(r) =>
               /\ Programmed(r, "VOLT:PROT:STAT", "VOLT:PROT", voltage_limit(r.req))
               /\ Programmed(r, "CURR:PROT:STAT", "CURR:PROT", current_limit(r.req))
               /\ r.load.kind = "sim" =>
                     /\ st.VOLT_PROT_ON = (voltage_limit(r.req) # None)
                     /\ st.VOLT_PROT = voltage_limit(r.req)
                     /\ st.CURR_PROT_ON = (current_limit(r.req) # None)
                     /\ st.CURR_PROT = current_limit(r.req)

\* the loop starts with one limit configured and the other absent
C12_Witness ==
    \E w \in Workers :
        /\ wk[w].pc = "loop" /\ wk[w].count = 0
        /\ wk[w].load.kind = "sim"
        /\ voltage_limit(wk[w].req) = None
        /\ ~wk[w].load.st.VOLT_PROT_ON
        /\ wk[w].load.st.CURR_PROT_ON
        /\ wk[w].load.st.CURR_PROT = current_limit(wk[w].req)

(***************************************************************************)
(* The end of start_sweep (lines 515-644) on any SampleSet.  The analysis  *)
(* reads the three lists only, and only through max, index and the         *)
(* truth value of pmp, so the worker is put at line 515 with any list of   *)
(* up to MaxSamples readings over a few voltages and currents (counted in  *)
(* 1e-4 V and 1e-4 A) in which adjacent entries differ, as line 467        *)
(* leaves them; the adapter calls that produced the list are left out.     *)
(***************************************************************************)
\* longest SampleSet handed to the analysis
MaxSamples == 3

ReadVolts == {0, 10, 20}
ReadCurrs == {0, 2, 4, 5}
Readings == { Sample(i, v) : i \in ReadCurrs, v \in ReadVolts }

SampleSets ==
    { s \in UNION { [1..n -> Readings] : n \in 0..MaxSamples } :
        \A k \in 1..(Len(s) - 1) : s[k] # s[k + 1] }

\* a sweep long enough for MaxSamples samples, all of them within its limit
LongRequest ==
    Request("CC", VisaAddress, Num(5000), Num(2500), Num(4), Num(248900), EmptyTxt,
            Num(5000))

AtAnalysis(s) ==
    [Blank EXCEPT !.pc = "analyze", !.req = LongRequest,
                  !.load = [kind |-> "visa", open |-> FALSE, st |-> SimInit],
                  !.samples = s, !.count = Len(s)]

AnalysisInit ==
    /\ sweep_running = TRUE
    /\ stop_requested = FALSE
    /\ start_button = "disabled"
    /\ finishing = 0
    /\ \E s \in SampleSets :
          /\ wk = [w \in Workers |-> IF w = 1 THEN AtAnalysis(s) ELSE Blank]
          /\ plot = [points |-> Len(s), summary |-> ""]
    /\ ComparisonInit
    /\ EarlyIdle
    /\ SimulatorIdle

AnalysisNext ==
    \/ \E w \in Workers :
          \/ Analyze(w) \/ CompleteDialog(w) \/ ErrorDialog(w) \/ Finally(w)
    \/ EnableStart

SpecAnalysis == AnalysisInit /\ [][AnalysisNext]_vars

\* the analysis of the worker's samples has run
AnalysisDone(r) == r.pc \in {"complete_dialog", "error_dialog", "finally"}

(***************************************************************************)
(* C13.  For a non-empty SampleSet pmp is the greatest power of the set    *)
(* and vmp, imp are the voltage and current of the first sample that has   *)
(* it; (V, I, P) = (0,5,0), (10,4,40), (20,0,0) give 40, 10 and 4.         *)
(***************************************************************************)
Example == << Sample(5, 0), Sample(4, 10), Sample(0, 20) >>

C13_MaximumPower ==
    \A w \in Workers :
        LET r == wk[w]
            s == r.samples
        IN  (AnalysisDone(r) /\ Len(s) > 0) =>
               /\ \E k \in DOMAIN s :
                     /\ r.pmp = Some(s[k].power)
                     /\ r.vmp = Some(s[k].voltage)
                     /\ r.imp = Some(s[k].current)
                     /\ \A j \in DOMAIN s : s[j].power <= s[k].power
                     /\ \A j \in 1..(k - 1) : s[j].power < s[k].power
               /\ s = Example => r.pmp = Some(40) /\ r.vmp = Some(10) /\ r.imp = Some(4)

\* two samples share the greatest power and the first was reported
C13_Witness ==
    \E w \in Workers :
        LET r == wk[w]
        IN  /\ r.pc = "complete_dialog"
            /\ Len(r.samples) = 3
            /\ r.samples[2].power = r.samples[3].power
            /\ r.samples[2].voltage # r.samples[3].voltage
            /\ r.pmp = Some(r.samples[2].power)
            /\ r.vmp = Some(r.samples[2].voltage)

(***************************************************************************)
(* C14.  The "no power data" outcome is reported exactly when the          *)
(* SampleSet is empty: then pmp, vmp and imp are absent; for a non-empty   *)
(* set the summary on the plot and the completion message both give the    *)
(* numbers.  The message is chosen with "if pmp", which is false for a     *)
(* maximum power of 0.0 too: the message then says "no power data" while   *)
(* the summary shows the numbers.                                          *)
(***************************************************************************)
NoData == "Sweep completed with no power data."

C14_NoDataIffEmpty ==
    \A w \in Workers :
        LET r == wk[w]
        IN  /\ AnalysisDone(r) =>
                  /\ (Len(r.samples) = 0) <=> (r.summary_text = NoData)
                  /\ (Len(r.samples) = 0) <=> (r.pmp = None /\ r.vmp = None /\ r.imp = None)
            /\ r.pc = "complete_dialog" =>
                  (Len(r.samples) = 0) <=> (r.message = NoData)

(***************************************************************************)
(* The comparison window (ComparisonApp, lines 776-1229).  A CSV file is   *)
(* its name, whether pandas can read it, whether it has the three columns, *)
(* and its rows; a cell is a number, missing, or text.  The numbers of a   *)
(* curve are whole volts, amperes and watts: the statistics only compare,  *)
(* negate, multiply and divide them.                                       *)
(***************************************************************************)
\* most rows of a CSV file
MaxRows == 3
\* most curves loaded at the same time
MaxCurves == 2

Row(i, v, p) == [current |-> i, voltage |-> v, power |-> p]

\* rows of measurements, an all-zero row, and a row of the metadata section
\* that start_sweep writes below the data ("Parameter", "Value", nothing)
DataRows ==
    { Row(Num(5), Num(0), Num(0)), Row(Num(4), Num(10), Num(40)),
      Row(Num(0), Num(20), Num(0)), Row(Num(-4), Num(10), Num(-40)),
      Row(Num(2), Num(20), Num(40)) }
ZeroRow == Row(Num(0), Num(0), Num(0))
MetadataRow == Row(BadTxt, BadTxt, EmptyTxt)
Rows == DataRows \cup {ZeroRow, MetadataRow}

Filenames == {"IV_Sweep_CC_4-Wire_1.csv", "IV_Sweep_CV_2-Wire_2.csv", "data.csv"}

\* tag in filename
Tagged(filename, tag) ==
    \/ filename = "IV_Sweep_CC_4-Wire_1.csv" /\ tag \in {"_CC_", "_4-Wire_"}
    \/ filename = "IV_Sweep_CV_2-Wire_2.csv" /\ tag \in {"_CV_", "_2-Wire_"}

CsvFile(name, readable, columns, rows) ==
    [name |-> name, readable |-> readable, columns |-> columns, rows |-> rows]

GoodFiles ==
    { CsvFile(name, TRUE, TRUE, rows) :
        name \in Filenames, rows \in UNION { [1..n -> Rows] : n \in 0..MaxRows } }
BrokenFiles ==
    { CsvFile("data.csv", FALSE, TRUE, << >>),
      CsvFile("data.csv", TRUE, FALSE, << Row(Num(5), Num(0), Num(0)) >>) }
CsvFiles == GoodFiles \cup BrokenFiles

\* the files offered once a curve is loaded: data.csv with one row at most
FewFiles == { f \in CsvFiles : f.name = "data.csv" /\ Len(f.rows) <= 1 }

\* lines 957-968: dropna, to_numeric(errors='coerce'), dropna, and the
\* rows that are zero in all three columns removed
Numeric(row) == row.current.t = "num" /\ row.voltage.t = "num" /\ row.power.t = "num"
NonZero(row) == row.current.n # 0 \/ row.voltage.n # 0 \/ row.power.n # 0
Cleaned(rows) == SelectSeq(SelectSeq(rows, Numeric), NonZero)

Column(rows, c) == [k \in DOMAIN rows |-> rows[k][c].n]

MinOf(seq) == CHOOSE m \in {seq[k] : k \in DOMAIN seq} : \A k \in DOMAIN seq : m <= seq[k]

\* the mode of the file name alone, "Unknown" without a tag
ModeOf_NoFallback(filename, df) ==
    IF Tagged(filename, "_CC_") THEN "CC"
    ELSE IF Tagged(filename, "_CV_") THEN "CV"
    ELSE "Unknown"

\* lines 977-997
ModeOf(filename, df) ==
    IF Tagged(filename, "_CC_") THEN "CC"
    ELSE IF Tagged(filename, "_CV_") THEN "CV"
    ELSE LET voltage_range == MaxOf(Column(df, "voltage")) - MinOf(Column(df, "voltage"))
             current_range == MaxOf(Column(df, "current")) - MinOf(Column(df, "current"))
         IN  IF voltage_range > current_range THEN "CV" ELSE "CC"

SenseOf(filename) ==
    IF Tagged(filename, "_4-Wire_") THEN "4-Wire"
    ELSE IF Tagged(filename, "_2-Wire_") THEN "2-Wire"
    ELSE "Unknown"

\* lines 1000-1008
curve_data(file, df) ==
    [filename |-> file.name, mode |-> ModeOf(file.name, df), sense |-> SenseOf(file.name),
     current |-> Column(df, "current"), voltage |-> Column(df, "voltage"),
     power |-> Column(df, "power")]

display_name(curve) == <<curve.mode, curve.sense, curve.filename>>

\* the values as they are, without abs
Magnitudes_Signed(seq) == seq

Magnitudes(seq) == [k \in DOMAIN seq |-> Abs(seq[k])]

\* a quotient of two numbers, kept exact
Ratio(num, den) == [num |-> num, den |-> den]

\* lines 1160-1181
CurveStatistics(curve) ==
    LET current_abs == Magnitudes(curve.current)
        power_abs == Magnitudes(curve.power)
        voltage_vals == curve.voltage
        max_power_idx == IndexOf(power_abs, MaxOf(power_abs))
        min_current_idx == IndexOf(current_abs, MinOf(current_abs))
        min_voltage_idx == IndexOf(voltage_vals, MinOf(voltage_vals))
        pmp == power_abs[max_power_idx]
        voc == voltage_vals[min_current_idx]
        isc == current_abs[min_voltage_idx]
    IN  [mode |-> curve.mode, sense |-> curve.sense, filename |-> curve.filename,
         pmp |-> pmp, vmp |-> voltage_vals[max_power_idx], imp |-> current_abs[max_power_idx],
         voc |-> voc, isc |-> isc,
         fill_factor |-> IF voc * isc > 0 THEN Ratio(pmp * 100, voc * isc)
                         ELSE Ratio(0, 1)]

\* lines 1136-1201: the text the panel shows for a curve collection
Statistics(curves) ==
    IF Len(curves) = 0 THEN Panel("No data loaded", << >>)
    ELSE Panel("Curve Statistics:", [k \in DOMAIN curves |-> CurveStatistics(curves[k])])

update_statistics == stats_text' = Statistics(loaded_curves')

\* the files the model offers to load_csv_file
Offered == IF loaded_curves = << >> THEN CsvFiles ELSE FewFiles

\* the message box load_csv_file ends with (lines 953, 972, 1020), "" if none
LoadError(file) ==
    IF ~file.readable THEN "Failed to load CSV file"
    ELSE IF ~file.columns THEN "CSV file must contain columns"
    ELSE IF Cleaned(file.rows) = << >> THEN "No valid numeric data found in CSV file"
    ELSE ""

\* lines 938-1020: a file that cannot be read, lacks a column or has no
\* numeric non-zero row shows an error box and changes nothing else
load_csv_file(file) ==
    LET df == Cleaned(file.rows)
    IN  /\ load_error' = LoadError(file)
        /\ IF LoadError(file) # ""
           THEN UNCHANGED <<loaded_curves, file_listbox, stats_text>>
           ELSE /\ Len(loaded_curves) < MaxCurves
                /\ loaded_curves' = Append(loaded_curves, curve_data(file, df))
                /\ file_listbox' = Append(file_listbox, display_name(curve_data(file, df)))
                /\ update_statistics
        /\ UNCHANGED <<sweep_running, stop_requested, start_button, plot, wk, finishing, svars, early>>

add_csv_file == \E file \in Offered : load_csv_file(file)

Without(seq, index) == SubSeq(seq, 1, index - 1) \o SubSeq(seq, index + 1, Len(seq))

\* a removal that deletes the first entry of the list box, whatever is selected
remove_selected_file_First ==
    \E selection \in {<< >>} \cup { <<k>> : k \in DOMAIN file_listbox } :
        IF selection = << >>
        THEN UNCHANGED vars
        ELSE /\ selection[1] \in DOMAIN loaded_curves
             /\ loaded_curves' = Without(loaded_curves, selection[1])
             /\ file_listbox' = Without(file_listbox, 1)
             /\ update_statistics
             /\ UNCHANGED <<sweep_running, stop_requested, start_button, plot, wk, finishing, svars, early,
                         load_error>>

\* lines 1022-1033: nothing happens without a selection
remove_selected_file ==
    \E selection \in {<< >>} \cup { <<k>> : k \in DOMAIN file_listbox } :
        IF selection = << >>
        THEN UNCHANGED vars
        ELSE /\ selection[1] \in DOMAIN loaded_curves
             /\ loaded_curves' = Without(loaded_curves, selection[1])
             /\ file_listbox' = Without(file_listbox, selection[1])
             /\ update_statistics
             /\ UNCHANGED <<sweep_running, stop_requested, start_button, plot, wk, finishing, svars, early,
                         load_error>>

\* lines 1035-1043
clear_all_files ==
    /\ loaded_curves' = << >>
    /\ file_listbox' = << >>
    /\ update_statistics
    /\ UNCHANGED <<sweep_running, stop_requested, start_button, plot, wk, finishing, svars, early,
                   load_error>>

CompareNext == add_csv_file \/ remove_selected_file \/ clear_all_files

SpecCompare == Init /\ [][CompareNext]_vars

(***************************************************************************)
(* C15.  For every loaded curve the panel shows: pmp the greatest |power|  *)
(* and vmp, |imp| of the first row that has it; voc the voltage of the     *)
(* first row of least |current|; isc the |current| of the first row of     *)
(* least voltage; fill_factor = pmp / (voc * isc) * 100 when voc * isc > 0 *)
(* and 0 otherwise.  The curve (V, I, P) = (0,5,0), (10,4,40), (20,0,0)    *)
(* has voc = 20, isc = 5, pmp = 40 and fill_factor 40.                     *)
(***************************************************************************)
FirstLeast(seq, k) ==
    /\ \A j \in DOMAIN seq : seq[k] <= seq[j]
    /\ \A j \in 1..(k - 1) : seq[k] < seq[j]

C15_ComparisonStatistics ==
    /\ Len(stats_text.curves) = Len(loaded_curves)
    /\ \A n \in DOMAIN loaded_curves :
          LET c == loaded_curves[n]
              st == stats_text.curves[n]
              absI == [k \in DOMAIN c.current |->
                          IF c.current[k] < 0 THEN -c.current[k] ELSE c.current[k]]
              negP == [k \in DOMAIN c.power |->
                          IF c.power[k] < 0 THEN c.power[k] ELSE -c.power[k]]
          IN  /\ \E k \in DOMAIN c.power :
                    /\ FirstLeast(negP, k)
                    /\ st.pmp = -negP[k] /\ st.vmp = c.voltage[k] /\ st.imp = absI[k]
              /\ \E k \in DOMAIN c.current : FirstLeast(absI, k) /\ st.voc = c.voltage[k]
              /\ \E k \in DOMAIN c.voltage : FirstLeast(c.voltage, k) /\ st.isc = absI[k]
              /\ st.fill_factor.den > 0
              /\ IF st.voc * st.isc > 0
                 THEN st.fill_factor.num * (st.voc * st.isc) =
                         st.pmp * 100 * st.fill_factor.den
                 ELSE st.fill_factor.num = 0
              /\ (st.voc = 20 /\ st.isc = 5 /\ st.pmp = 40) =>
                    st.fill_factor.num = 40 * st.fill_factor.den

\* a curve with negative currents and powers whose statistics are shown
C15_Witness ==
    \E n \in DOMAIN loaded_curves :
        /\ \E k \in DOMAIN loaded_curves[n].power : loaded_curves[n].power[k] < 0
        /\ loaded_curves[n].voltage = <<0, 10, 20>>
        /\ stats_text.curves[n].voc = 20
        /\ stats_text.curves[n].isc = 5
        /\ stats_text.curves[n].pmp = 40
        /\ stats_text.curves[n].fill_factor = Ratio(4000, 100)

(***************************************************************************)
(* C16.  A sweep whose loop was left early (protection violation, adapter  *)
(* error in an iteration, stop request) ends with every accepted sample    *)
(* retained, with Pmp/Vmp/Imp computed over exactly those samples, and     *)
(* with a CSV file, if one is written, holding exactly those samples in    *)
(* acquisition order.                                                      *)
(***************************************************************************)
\* the loop was entered and left before total_steps iterations completed
Aborted(r) ==
    EnteredLoop(r) /\ r.pc \notin {"loop", "meas_v", "meas_i"} /\ r.count < total_steps(r.req)

\* the samples stay as they are from the abort to the end of the sweep
C16_Retained ==
    \A w \in Workers :
        (Aborted(wk[w]) /\ ~AtEnd(wk[w])) => wk'[w].samples = wk[w].samples

C16_RetainedAlways == [][C16_Retained]_vars

C16_PartialDataAnalysed ==
    \A w \in Workers :
        LET r == wk[w]
        IN  (AtEnd(r) /\ Aborted(r) /\ r.samples # << >>) =>
               /\ \E k \in DOMAIN r.samples :
                     /\ \A j \in DOMAIN r.samples : r.samples[j].power <= r.samples[k].power
                     /\ r.pmp = Some(r.samples[k].power)
                     /\ r.vmp = Some(r.samples[k].voltage)
                     /\ r.imp = Some(r.samples[k].current)
               /\ r.csv \in {None, Some(r.samples)}

(***************************************************************************)
(* Sweeps of the VISA instrument over step counts: the request is accepted *)
(* and the worker stands before line 344.                                  *)
(***************************************************************************)
StepRequests ==
    { req \in { Request("CC", VisaAddress, Num(t[1]), Num(t[2]), Num(t[3]),
                        Num(248900), clim, Num(5000)) :
                  t \in { <<5000, 5000, 2500>>, <<5000, 2500, 2500>>, <<5000, 5005, 4>>,
                          <<5000, 5004, 4>>, <<6000, 4000, 2000>> },
                  clim \in {EmptyTxt, Num(6500)} } :
        Rejection(req) = "" /\ total_steps(req) <= MaxSteps }

StepsInit ==
    /\ sweep_running = TRUE
    /\ stop_requested = FALSE
    /\ start_button = "disabled"
    /\ finishing = 0
    /\ plot = [points |-> 0, summary |-> ""]
    /\ \E req \in StepRequests :
          wk = [w \in Workers |->
                  IF w = 1 THEN [Blank EXCEPT !.pc = "open", !.req = req] ELSE Blank]
    /\ ComparisonInit
    /\ EarlyIdle
    /\ SimulatorIdle

StepsNext ==
    \/ ClickStop
    \/ on_escape
    \/ EnableStart
    \/ \E w \in Workers :
          \/ Open(w) \/ Reset(w) \/ Clear(w) \/ QueryFunction(w) \/ WriteFunction(w)
          \/ VoltProtStat(w) \/ VoltProt(w) \/ CurrProtStat(w) \/ CurrProt(w)
          \/ Sense(w) \/ InputOn(w) \/ InitialSetpoint(w) \/ InputOnAgain(w)
          \/ LoopHead(w) \/ StopDialog(w) \/ MeasureVoltage(w) \/ MeasureCurrent(w)
          \/ FaultDialog(w) \/ InputOff(w) \/ Close(w) \/ Analyze(w)
          \/ CompleteDialog(w) \/ ErrorDialog(w) \/ Finally(w)

SpecSteps == StepsInit /\ [][StepsNext]_vars

(***************************************************************************)
(* C17.  For an accepted request total_steps is                            *)
(* floor(|end - start| / |step|) + 1 >= 1, one when start = end; the loop  *)
(* body runs at most that many times, and exactly that many times when the *)
(* loop ends without stop request, protection violation or adapter error.  *)
(***************************************************************************)
\* the step count of the entered decimals
ExactSteps(req) == (Abs(req.end.n - req.start.n) \div Abs(req.step.n)) + 1

\* iterations completed, and the one in progress
Iterations(r) == r.count + (IF r.pc \in {"meas_v", "meas_i"} THEN 1 ELSE 0)

\* the for statement ran out: no break left the loop
LoopExhausted(r) ==
    r.pc = "input_off" /\ r.dialog \notin {"Sweep Stopped", "Protection Triggered"}

C17_StepCount ==
    \A w \in Workers :
        LET r == wk[w]
        IN  Accepted(r) =>
               /\ ExactSteps(r.req) >= 1
               /\ r.req.start = r.req.end => ExactSteps(r.req) = 1
               /\ Iterations(r) <= ExactSteps(r.req)
               /\ LoopExhausted(r) => r.count = ExactSteps(r.req)

\* the loop of a sweep from 0.5 to 0.5005 by 0.0004 ran out after 2 iterations
C17_TwoSteps ==
    \E w \in Workers :
        /\ LoopExhausted(wk[w])
        /\ wk[w].req.end.n - wk[w].req.start.n = 5
        /\ wk[w].count = 2

(***************************************************************************)
(* A SimulatedInstrument driven on its own: any state, then any sequence   *)
(* of write and query calls.  The commands are those start_sweep sends and *)
(* their like; the setpoints include values at and beyond Isc and Voc.     *)
(***************************************************************************)
SimFuncs == {"CURR", "VOLT"}
SimCurrents == {0, 2500, 50000, 60000}
SimVoltages == {249000, 250500}
SimVoltLimits == {-10000, 248900}
SimCurrLimits == {4000, 6500}

SimStates ==
    { [FUNC |-> f, current |-> i, voltage |-> v, VOLT_PROT_ON |-> von, VOLT_PROT |-> vp,
       CURR_PROT_ON |-> con, CURR_PROT |-> cp] :
        f \in SimFuncs, i \in SimCurrents, v \in SimVoltages, von \in BOOLEAN,
        vp \in {None} \cup {Some(x) : x \in SimVoltLimits}, con \in BOOLEAN,
        cp \in {None} \cup {Some(x) : x \in SimCurrLimits} }

\* commands no branch of write matches
Unrecognized ==
    { Cmd("INPUT", "ON", 0), Cmd("INPUT", "OFF", 0), Cmd("REM:SENS", "ON", 0),
      Cmd("REM:SENS", "OFF", 0), Cmd("*RST", "", 0), Cmd("*CLS", "", 0) }

Recognized ==
    { Cmd("FUNC", f, 0) : f \in SimFuncs }
    \cup { Cmd("CURR", "", i) : i \in SimCurrents }
    \cup { Cmd("VOLT", "", v) : v \in SimVoltages }
    \cup { Cmd(c, t, 0) : c \in {"VOLT:PROT:STAT", "CURR:PROT:STAT"}, t \in {"ON", "OFF"} }
    \cup { Cmd("VOLT:PROT", "", x) : x \in SimVoltLimits }
    \cup { Cmd("CURR:PROT", "", x) : x \in SimCurrLimits }

SimCommands == Unrecognized \cup Recognized

SimQueries == {"MEAS:VOLT?", "MEAS:CURR?", "FUNC?", "STAT:QUES:COND?", "*IDN?"}

SimulatorInit ==
    /\ sweep_running = FALSE
    /\ stop_requested = FALSE
    /\ start_button = "normal"
    /\ plot = [points |-> 0, summary |-> ""]
    /\ wk = [w \in Workers |-> Blank]
    /\ finishing = 0
    /\ ComparisonInit
    /\ EarlyIdle
    /\ sim_state \in SimStates
    /\ sim_call = Call("", Cmd("", "", 0), Number(0))

\* lines 672-705
write(command) ==
    /\ sim_state' = SimWrite(sim_state, command)
    /\ sim_call' = Call("write", command, Number(0))
    /\ UNCHANGED <<sweep_running, stop_requested, start_button, plot, wk, finishing, cvars, early>>

\* lines 707-756
query(command) ==
    /\ sim_call' = Call("query", Cmd(command, "", 0), SimQuery(sim_state, command))
    /\ UNCHANGED <<sweep_running, stop_requested, start_button, plot, wk, finishing, cvars,
                   sim_state, early>>

\* the voltage a MEAS:VOLT? just returned, written back as a setpoint
Measured ==
    IF sim_call.op = "query" /\ sim_call.c.cmd = "MEAS:VOLT?"
    THEN {Cmd("VOLT", "", sim_call.reply.n)} ELSE {}

SimulatorNext ==
    \/ \E command \in SimCommands \cup Measured : write(command)
    \/ \E command \in SimQueries : query(command)

SpecSimulator == SimulatorInit /\ [][SimulatorNext]_vars

(***************************************************************************)
(* C18.  write leaves the instrument state as it is for INPUT ON/OFF,      *)
(* REM:SENS ON/OFF, *RST and *CLS, and a recognized command changes its    *)
(* own field only: FUNC the function, CURR and VOLT the setpoint,          *)
(* VOLT:PROT:STAT and CURR:PROT:STAT the enable flag, VOLT:PROT and        *)
(* CURR:PROT the limit.                                                    *)
(***************************************************************************)
Fields == {"FUNC", "current", "voltage", "VOLT_PROT_ON", "VOLT_PROT", "CURR_PROT_ON", "CURR_PROT"}

\* the field a command keyword owns
OwnField(keyword) ==
    CASE keyword = "FUNC" -> "FUNC"
      [] keyword = "CURR" -> "current"
      [] keyword = "VOLT" -> "voltage"
      [] keyword = "VOLT:PROT:STAT" -> "VOLT_PROT_ON"
      [] keyword = "CURR:PROT:STAT" -> "CURR_PROT_ON"
      [] keyword = "VOLT:PROT" -> "VOLT_PROT"
      [] keyword = "CURR:PROT" -> "CURR_PROT"
      [] OTHER -> ""

\* the value a recognized command gives its field
OwnValue(c) ==
    CASE c.cmd = "FUNC" -> c.txt
      [] c.cmd \in {"CURR", "VOLT"} -> c.num
      [] c.cmd \in {"VOLT:PROT:STAT", "CURR:PROT:STAT"} -> (c.txt = "ON")
      [] OTHER -> Some(c.num)

C18_Frame ==
    sim_call'.op = "write" =>
        /\ \A f \in Fields \ {OwnField(sim_call'.c.cmd)} : sim_state'[f] = sim_state[f]
        /\ OwnField(sim_call'.c.cmd) # "" =>
              sim_state'[OwnField(sim_call'.c.cmd)] = OwnValue(sim_call'.c)

C18_WriteFrame == [][C18_Frame]_vars

\* the state after a write outside the grammar, and after a write that
\* disabled a protection whose limit stays
C18_Witness ==
    /\ sim_call.op = "write"
    /\ sim_call.c.cmd \in {"*RST", "INPUT", "CURR:PROT:STAT"}
    /\ sim_state.CURR_PROT # None
    /\ sim_state.VOLT_PROT_ON
    /\ sim_state.current = 60000

(***************************************************************************)
(* C19.  query never changes the instrument state.  It returns the raw     *)
(* voltage setpoint for MEAS:VOLT? in voltage mode, the raw current        *)
(* setpoint for MEAS:CURR? in current mode, the function for FUNC?, and    *)
(* "0" for every other query.                                              *)
(***************************************************************************)
C19_Query ==
    sim_call'.op = "query" =>
        LET q == sim_call'.c.cmd
            reply == sim_call'.reply
        IN  /\ sim_state' = sim_state
            /\ (q = "MEAS:VOLT?" /\ sim_state.FUNC = "VOLT") =>
                  reply = [s |-> "", n |-> sim_state.voltage]
            /\ (q = "MEAS:CURR?" /\ sim_state.FUNC = "CURR") =>
                  reply = [s |-> "", n |-> sim_state.current]
            /\ q = "FUNC?" => reply = [s |-> sim_state.FUNC, n |-> 0]
            /\ q \notin {"MEAS:VOLT?", "MEAS:CURR?", "FUNC?"} => reply = [s |-> "", n |-> 0]

C19_QueryPure == [][C19_Query]_vars

\* MEAS:VOLT? answered in voltage mode with a setpoint above Voc and the
\* protections enabled
C19_Witness ==
    /\ sim_call.op = "query"
    /\ sim_call.c.cmd = "MEAS:VOLT?"
    /\ sim_state.FUNC = "VOLT"
    /\ sim_state.VOLT_PROT_ON /\ sim_state.VOLT_PROT = Some(248900)
    /\ sim_call.reply.n = 250500

(***************************************************************************)
(* C20.  MEAS:VOLT? in current mode returns limit + 5 only when voltage    *)
(* protection is enabled, a limit is set and the modeled voltage exceeds   *)
(* it; otherwise the modeled voltage clamped to >= 0, which is 0 for a     *)
(* current setpoint >= Isc.  MEAS:CURR? in voltage mode returns current    *)
(* limit + 5 only when current protection is enabled with a limit the      *)
(* modeled current exceeds, otherwise the modeled current clamped to >= 0. *)
(***************************************************************************)
\* the voltage and the current of the solar cell model
ModeledVoltage(I) == IF I >= 50000 THEN 0 ELSE (CHOOSE p \in LogTable : p[1] = I)[2]
ModeledCurrent(V) == (CHOOSE p \in ExpTable : p[1] = V)[2]

C20_Trip ==
    sim_call'.op = "query" =>
        LET q == sim_call'.c.cmd
            st == sim_state
            V == ModeledVoltage(st.current)
            I == ModeledCurrent(st.voltage)
            vtrip == st.VOLT_PROT_ON /\ st.VOLT_PROT # None /\ V > st.VOLT_PROT[1]
            ctrip == st.CURR_PROT_ON /\ st.CURR_PROT # None /\ I > st.CURR_PROT[1]
        IN  /\ (q = "MEAS:VOLT?" /\ st.FUNC = "CURR") =>
                  /\ vtrip => sim_call'.reply.n = st.VOLT_PROT[1] + 50000
                  /\ ~vtrip => sim_call'.reply.n = (IF V < 0 THEN 0 ELSE V)
                  /\ (~vtrip /\ st.current >= 50000) => sim_call'.reply.n = 0
            /\ (q = "MEAS:CURR?" /\ st.FUNC = "VOLT") =>
                  /\ ctrip => sim_call'.reply.n = st.CURR_PROT[1] + 50000
                  /\ ~ctrip => sim_call'.reply.n = (IF I < 0 THEN 0 ELSE I)

C20_ConditionalTrip == [][C20_Trip]_vars

\* the open-circuit voltage 25 V exceeds the enabled limit 24.89 V: 29.89 V
\* is returned
C20_Witness ==
    /\ sim_call.op = "query"
    /\ sim_call.c.cmd = "MEAS:VOLT?"
    /\ sim_state.FUNC = "CURR"
    /\ sim_state.current = 0
    /\ sim_state.VOLT_PROT_ON /\ sim_state.VOLT_PROT = Some(248900)
    /\ sim_call.reply.n = 298900

(***************************************************************************)
(* C21.  Round trip of the simulated load: with protection off and         *)
(* 0 <= I < Isc, the voltage MEAS:VOLT? returns for the current setpoint I *)
(* in current mode, written as the voltage setpoint in voltage mode, makes *)
(* MEAS:CURR? return I within 1e-4.                                        *)
(***************************************************************************)
\* MEAS:CURR? was answered in voltage mode, protection off, at the voltage
\* of the current setpoint
RoundTripDone ==
    /\ sim_call.op = "query"
    /\ sim_call.c.cmd = "MEAS:CURR?"
    /\ sim_state.FUNC = "VOLT"
    /\ ~sim_state.VOLT_PROT_ON /\ ~sim_state.CURR_PROT_ON
    /\ sim_state.current >= 0 /\ sim_state.current < 50000
    /\ sim_state.voltage = ModeledVoltage(sim_state.current)

BeforeLoopExit(r) ==
    Accepted(r) /\
    r.pc \notin {"stop_dialog", "fault_dialog", "input_off", "close", "analyze",
                 "complete_dialog", "error_dialog", "finally"}

C22_StopKept ==
    \A w \in Workers :
        /\ ( /\ stop_requested /\ sweep_running
             /\ wk[w].pc # "idle" /\ BeforeLoopExit(wk'[w]) ) => stop_requested'
        /\ ( /\ stop_requested /\ wk[w].pc = "loop" /\ wk'[w] # wk[w] ) =>
                 ~BeforeLoopExit(wk'[w])

C22_StopNeverLost == [][C22_StopKept]_vars

(***************************************************************************)
(* One sweep under scheduling: the worker thread, when it can take a step, *)
(* eventually takes one (each adapter call and each dialog returns), and   *)
(* the ended thread re-enables the Start button.                           *)
(***************************************************************************)
Fairness ==
    /\ WF_vars(\E w \in Workers : Worker(w))
    /\ WF_vars(EnableStart)

\* the state start_sweep_thread leaves: sweep_running set, the thread started
LiveInit ==
    /\ sweep_running = TRUE
    /\ stop_requested = FALSE
    /\ start_button = "normal"
    /\ plot = [points |-> 0, summary |-> ""]
    /\ wk = [w \in Workers |-> IF w = 1 THEN [Blank EXCEPT !.pc = "spawned"] ELSE Blank]
    /\ finishing = 0
    /\ ComparisonInit
    /\ EarlyIdle
    /\ SimulatorIdle

\* the entries this specification accepts: current sweeps with a positive
\* step and delay
LiveRequests ==
    { req \in Requests : req.mode = "CC" /\ req.step.n > 0 /\ req.sleep.n > 0 }

\* one sweep with the Stop button and the Escape key
LiveNext ==
    /\ \/ ClickStop
       \/ on_escape
       \/ EnableStart
       \/ \E w \in Workers : Worker(w)
    /\ \A w \in Workers : wk'[w].req \in LiveRequests \cup {NoRequest}

SpecLive == LiveInit /\ [][LiveNext]_vars /\ Fairness

StaleInit ==
    /\ sweep_running = TRUE
    /\ stop_requested = TRUE
    /\ start_button = "normal"
    /\ plot = [points |-> 0, summary |-> ""]
    /\ wk = [w \in Workers |-> IF w = 1 THEN [Blank EXCEPT !.pc = "spawned"] ELSE Blank]
    /\ finishing = 0
    /\ ComparisonInit
    /\ EarlyIdle
    /\ SimulatorIdle

\* the steps of a worker that nobody asks to stop: every step of Worker but
\* the dialog of line 442, which needs a request made after line 287
Unstopped(w) ==
    \/ Validate(w) \/ Reject(w) \/ Open(w) \/ Reset(w) \/ Clear(w)
    \/ QueryFunction(w) \/ WriteFunction(w)
    \/ VoltProtStat(w) \/ VoltProt(w) \/ CurrProtStat(w) \/ CurrProt(w)
    \/ Sense(w) \/ InputOn(w) \/ InitialSetpoint(w) \/ InputOnAgain(w)
    \/ LoopHead(w) \/ MeasureVoltage(w) \/ MeasureCurrent(w)
    \/ FaultDialog(w) \/ InputOff(w) \/ Close(w) \/ Analyze(w)
    \/ CompleteDialog(w) \/ ErrorDialog(w) \/ Finally(w)

StaleNext == EnableStart \/ \E w \in Workers : Unstopped(w)

SpecStale == StaleInit /\ [][StaleNext]_vars

(***************************************************************************)
(* C24.  A stop request made while no sweep is running does not cancel the *)
(* next sweep: the flag is cleared before the first loop iteration, the    *)
(* sweep is never reported as stopped, and a loop left without fault or    *)
(* protection trip has run all total_steps iterations.                     *)
(***************************************************************************)
C24_StaleStopIgnored ==
    \A w \in Workers :
        LET r == wk[w]
        IN  /\ Accepted(r) => ~stop_requested
            /\ r.pc # "stop_dialog"
            /\ r.dialog # "Sweep Stopped"
            /\ (r.pc = "input_off" /\ r.dialog # "Protection Triggered") =>
                  /\ r.count = ExactSteps(r.req)
                  /\ Len(r.samples) >= 1

\* the loop ran its two iterations although Stop had been clicked before
\* the sweep was started
C24_Witness ==
    \E w \in Workers :
        /\ wk[w].pc = "input_off"
        /\ wk[w].dialog = ""
        /\ wk[w].count = 2
        /\ ~stop_requested

(***************************************************************************)
(* C25.  As claimed, for a step > 0: the setpoint written in loop          *)
(* iteration k (k = 0 ..) is start + k * sweep_step, it lies between start *)
(* and end, and the last setpoint of an uninterrupted sweep is less than   *)
(* |step| away from end.  The code writes the value with three decimals,   *)
(* so for a step that is no multiple of 0.001 the written setpoint is not  *)
(* start + k * sweep_step.                                                 *)
(***************************************************************************)
\* the log index of the second successful INPUT ON, 0 if there is none
LoopStart(r) ==
    LET on == {k \in DOMAIN r.log : IsInputOn(r.log[k]) /\ r.log[k].ok}
    IN  IF Cardinality(on) < 2 THEN 0 ELSE CHOOSE k \in on : \A j \in on : j <= k

\* the setpoints the loop wrote or tried to write, in order
LoopSetpoints(r) ==
    IF LoopStart(r) = 0 THEN << >>
    ELSE LET rest == SubSeq(r.log, LoopStart(r) + 1, Len(r.log))
             writes == SelectSeq(rest, LAMBDA e : e.op = "write" /\ e.c.cmd \in {"CURR", "VOLT"})
         IN  [k \in DOMAIN writes |-> writes[k].c.num]

\* start + k * sweep_step, the step turned toward end
Planned(req, k) ==
    req.start.n + k * (IF req.end.n >= req.start.n THEN req.step.n ELSE -req.step.n)

Between(x, a, b) == (a <= x /\ x <= b) \/ (b <= x /\ x <= a)

\* the last planned value of a loop that ran out is less than a step from end
C25_LastNearEnd(r) ==
    (LoopExhausted(r) /\ Len(LoopSetpoints(r)) > 0) =>
        LET last == Planned(r.req, Len(LoopSetpoints(r)) - 1)
        IN  /\ last - r.req.end.n < r.req.step.n
            /\ r.req.end.n - last < r.req.step.n

C25_Original ==
    \A w \in Workers :
        LET r == wk[w]
        IN  (Accepted(r) /\ r.req.step.n > 0) =>
               /\ \A k \in DOMAIN LoopSetpoints(r) :
                     /\ LoopSetpoints(r)[k] = Planned(r.req, k - 1)
                     /\ Between(LoopSetpoints(r)[k], r.req.start.n, r.req.end.n)
               /\ C25_LastNearEnd(r)

(***************************************************************************)
(* C25, amended.  For a step > 0 the value of loop iteration k is          *)
(* start + k * sweep_step and lies between start and end; the setpoint     *)
(* written is that value with three decimals, at most 0.0005 away from it; *)
(* the last value of an uninterrupted sweep is less than |step| away from  *)
(* end.                                                                    *)
(***************************************************************************)
C25_Setpoints ==
    \A w \in Workers :
        LET r == wk[w]
        IN  (Accepted(r) /\ r.req.step.n > 0) =>
               /\ \A k \in DOMAIN LoopSetpoints(r) :
                     /\ LoopSetpoints(r)[k] % 10 = 0
                     /\ LoopSetpoints(r)[k] - Planned(r.req, k - 1) <= 5
                     /\ Planned(r.req, k - 1) - LoopSetpoints(r)[k] <= 5
                     /\ Between(Planned(r.req, k - 1), r.req.start.n, r.req.end.n)
               /\ C25_LastNearEnd(r)

\* a sweep from 0.5 to 0.5005 by 0.0004 ran out: 0.500 was written twice,
\* for the values 0.5 and 0.5004
C25_Witness ==
    \E w \in Workers :
        /\ LoopExhausted(wk[w])
        /\ wk[w].req.step.n = 4
        /\ LoopSetpoints(wk[w]) = <<5000, 5000>>

(***************************************************************************)
(* C26.  During a sweep currents, voltages and powers have equal length    *)
(* and powers[k] = voltages[k] * currents[k]; an iteration appends at most *)
(* one entry, an entry once appended is never changed or removed, nothing  *)
(* is appended after the loop; the number of samples never exceeds the     *)
(* number of completed iterations nor total_steps.                         *)
(***************************************************************************)
\* the three lists of lines 407 and 468-470
currents(r) == [k \in DOMAIN r.samples |-> r.samples[k].current]
voltages(r) == [k \in DOMAIN r.samples |-> r.samples[k].voltage]
powers(r) == [k \in DOMAIN r.samples |-> r.samples[k].power]

IsPrefix(s, t) == Len(s) <= Len(t) /\ SubSeq(t, 1, Len(s)) = s

C26_Lists ==
    \A w \in Workers :
        LET r == wk[w]
        IN  /\ Len(currents(r)) = Len(voltages(r)) /\ Len(voltages(r)) = Len(powers(r))
            /\ \A k \in DOMAIN powers(r) : powers(r)[k] = voltages(r)[k] * currents(r)[k]
            /\ Len(powers(r)) <= r.count
            /\ Accepted(r) => r.count <= ExactSteps(r.req)
            /\ ~Accepted(r) => r.samples = << >>

C26_Growth ==
    \A w \in Workers :
        wk'[w].pc # "idle" =>
            /\ IsPrefix(wk[w].samples, wk'[w].samples)
            /\ Len(wk'[w].samples) <= Len(wk[w].samples) + 1
            /\ wk'[w].samples # wk[w].samples =>
                  /\ wk[w].pc = "meas_i"
                  /\ wk'[w].count = wk[w].count + 1
            /\ ~InLoop(wk[w]) => wk'[w].samples = wk[w].samples

C26_SampleLists == []C26_Lists /\ [][C26_Growth]_vars

\* two iterations completed, the second reading within EPS of the first:
\* one sample
C26_Witness ==
    \E w \in Workers :
        /\ wk[w].pc = "input_off"
        /\ wk[w].count = 2
        /\ Len(wk[w].samples) = 1
        /\ wk[w].voltage # wk[w].samples[1].voltage

(***************************************************************************)
(* C27.  After a protection violation or an adapter error inside a loop    *)
(* iteration no further setpoint is written and no measurement is queried  *)
(* in that sweep: the only adapter operations that follow are INPUT OFF    *)
(* and close.                                                              *)
(***************************************************************************)
\* an exception was raised in the sweep after the loop was entered
Faulted(r) == EnteredLoop(r) /\ r.exc # ""

C27_OnlyShutdown ==
    \A w \in Workers :
        (Faulted(wk[w]) /\ wk'[w].pc # "idle" /\ wk'[w].log # wk[w].log) =>
            /\ Len(wk'[w].log) = Len(wk[w].log) + 1
            /\ SubSeq(wk'[w].log, 1, Len(wk[w].log)) = wk[w].log
            /\ LET e == wk'[w].log[Len(wk'[w].log)]
               IN  \/ e.op = "write" /\ e.c.cmd = "INPUT" /\ e.c.txt = "OFF"
                   \/ e.op = "close"

C27_AfterFault == [][C27_OnlyShutdown]_vars

\* MEAS:CURR? raised in an iteration; INPUT OFF and close followed
C27_Witness ==
    \E w \in Workers :
        LET r == wk[w]
            n == Len(r.log)
        IN  /\ r.pc = "analyze"
            /\ r.exc = "VisaIOError"
            /\ n >= 3
            /\ r.log[n].op = "close"
            /\ r.log[n - 1].op = "write" /\ r.log[n - 1].c.cmd = "INPUT"
            /\ r.log[n - 2].op = "query" /\ ~r.log[n - 2].ok
            /\ r.log[n - 2].c.cmd = "MEAS:CURR?"

(***************************************************************************)
(* C28.  In the comparison window loaded_curves and the file list always   *)
(* have the same length and the same order; a successful load appends one  *)
(* record at the end of both, remove-selected deletes the record at one    *)
(* index from both (nothing without a selection), clear-all empties both.  *)
(***************************************************************************)
C28_Aligned ==
    /\ Len(file_listbox) = Len(loaded_curves)
    /\ \A k \in DOMAIN loaded_curves :
          file_listbox[k] =
              <<loaded_curves[k].mode, loaded_curves[k].sense, loaded_curves[k].filename>>

Dropped(seq, i) == [k \in 1..(Len(seq) - 1) |-> IF k < i THEN seq[k] ELSE seq[k + 1]]

C28_Operation ==
    LET n == Len(loaded_curves)
    IN  \/ loaded_curves' = loaded_curves /\ file_listbox' = file_listbox
        \/ /\ Len(loaded_curves') = n + 1 /\ Len(file_listbox') = n + 1
           /\ SubSeq(loaded_curves', 1, n) = loaded_curves
           /\ SubSeq(file_listbox', 1, n) = file_listbox
        \/ \E i \in 1..n :
              /\ loaded_curves' = Dropped(loaded_curves, i)
              /\ file_listbox' = Dropped(file_listbox, i)
        \/ loaded_curves' = << >> /\ file_listbox' = << >>

C28_Collection == []C28_Aligned /\ [][C28_Operation]_vars

\* two curves of data.csv whose modes differ, listed in the order of loading
C28_Witness ==
    /\ Len(loaded_curves) = 2
    /\ loaded_curves[1].filename = "data.csv"
    /\ loaded_curves[2].filename = "data.csv"
    /\ loaded_curves[1].mode # loaded_curves[2].mode
    /\ file_listbox[1] # file_listbox[2]

(***************************************************************************)
(* C29.  A load that fails (a column is missing, no numeric non-zero row   *)
(* is left after cleaning, or reading raises) leaves the curve collection  *)
(* and the file list as they were; a load that succeeds records the mode   *)
(* CC or CV, never Unknown.                                                *)
(***************************************************************************)
C29_FailedLoad ==
    (load_error' # "" /\ load_error' # load_error) =>
        /\ loaded_curves' = loaded_curves
        /\ file_listbox' = file_listbox
        /\ stats_text' = stats_text

C29_Loaded ==
    \A n \in DOMAIN loaded_curves :
        LET c == loaded_curves[n]
        IN  /\ c.mode \in {"CC", "CV"}
            /\ Len(c.current) >= 1
            /\ Len(c.voltage) = Len(c.current) /\ Len(c.power) = Len(c.current)
            /\ \A k \in DOMAIN c.current :
                  c.current[k] # 0 \/ c.voltage[k] # 0 \/ c.power[k] # 0

C29_LoadOutcome == []C29_Loaded /\ [][C29_FailedLoad]_vars

\* a curve of a file without tags is loaded, and the load after it failed
C29_Witness ==
    /\ load_error = "No valid numeric data found in CSV file"
    /\ Len(loaded_curves) = 1
    /\ loaded_curves[1].filename = "data.csv"
    /\ loaded_curves[1].mode = "CV"

(***************************************************************************)
(* The early revisions of the sweep: GUI_CV.py (IVApp.start_sweep),        *)
(* tests/All_CC.py (IVAppCC.start_sweep) and measure.py.  Each one writes  *)
(* the mode and INPUT ON, runs a loop "while setpoint <= end" that ends    *)
(* with "setpoint += step", and writes INPUT OFF after the loop.  None of  *)
(* them looks at the step before the loop, and the loop body is in no try. *)
(***************************************************************************)
MaxEarly == 4

EarlyPrograms == {"GUI_CV", "All_CC", "measure"}

\* measure.py lines 6-8: 0.0 A to 1.5 A by 0.05 A
MeasureConfig == [start |-> 0, end |-> 15000, step |-> 500]

\* the numbers typed into the three entries of the two windows
EarlyConfigs(prog) ==
    IF prog = "measure" THEN {MeasureConfig}
    ELSE [start : {0, 10000}, end : {0, 10000}, step : {-10000, 0, 5000, 10000}]

\* the sums of doubles that end above the exact sum: thirty additions of
\* 0.05 give 1.5000000000000007
EarlyDrift == { <<0, 15000, 500>> }

\* the loop condition, "while v <= v_end" (GUI_CV.py line 77, All_CC.py
\* line 62, measure.py line 28), on the doubles the program holds
Continues(e) ==
    IF <<e.start, e.end, e.step>> \in EarlyDrift THEN e.setpoint < e.end
    ELSE e.setpoint <= e.end

\* "v += v_step": a descending double stops changing once the step is below
\* its precision; the model lets that happen at -MaxEarly
Advance(e) ==
    IF e.setpoint + e.step < -(MaxEarly * 10000) THEN e.setpoint
    ELSE e.setpoint + e.step

\* the length of the two lists, counted up to MaxEarly
Longer(n) == IF n < MaxEarly THEN n + 1 ELSE n

\* start_sweep up to the loop (GUI_CV.py lines 49-76, All_CC.py lines 37-61),
\* measure.py lines 13-27: the entries are parsed, the instrument is opened,
\* the mode and INPUT ON are written, the setpoint starts at start
EarlyStart(prog) ==
    /\ early.pc = "idle"
    /\ \E cfg \in EarlyConfigs(prog), outcome \in {"ok", "ValueError", "VisaIOError"} :
          /\ outcome = "ValueError" => prog # "measure"
          /\ early' =
                IF outcome = "ValueError"
                THEN [early EXCEPT !.prog = prog, !.pc = "returned", !.dialog = "Input Error"]
                ELSE IF outcome = "VisaIOError"
                THEN IF prog = "measure"
                     THEN [early EXCEPT !.prog = prog, !.pc = "raised"]
                     ELSE [early EXCEPT !.prog = prog, !.pc = "returned",
                                        !.dialog = "Connection Error"]
                ELSE [early EXCEPT !.prog = prog, !.pc = "loop", !.start = cfg.start,
                                   !.end = cfg.end, !.step = cfg.step,
                                   !.setpoint = cfg.start, !.input = "ON"]
    /\ UNCHANGED <<sweep_running, stop_requested, start_button, plot, wk, finishing, cvars, svars>>

\* the test of the while loop
EarlyLoop ==
    /\ early.pc = "loop"
    /\ early' = [early EXCEPT !.pc = IF Continues(early) THEN "body" ELSE "after"]
    /\ UNCHANGED <<sweep_running, stop_requested, start_button, plot, wk, finishing, cvars, svars>>

\* one pass of the loop body (GUI_CV.py lines 78-85, All_CC.py lines 63-69,
\* measure.py lines 29-36); a write or a query that raises ends the program
\* there, since nothing catches it
EarlyBody ==
    /\ early.pc = "body"
    /\ \E raises \in BOOLEAN :
          early' = IF raises THEN [early EXCEPT !.pc = "raised"]
                   ELSE [early EXCEPT !.pc = "loop", !.n = Longer(early.n),
                                      !.setpoint = Advance(early)]
    /\ UNCHANGED <<sweep_running, stop_requested, start_button, plot, wk, finishing, cvars, svars>>

\* load.write("INPUT OFF") after the loop (GUI_CV.py line 87, All_CC.py
\* line 71, measure.py line 39)
EarlyInputOff ==
    /\ early.pc = "after"
    /\ \E raises \in BOOLEAN :
          early' = IF raises THEN [early EXCEPT !.pc = "raised"]
                   ELSE [early EXCEPT !.pc = "save", !.input = "OFF"]
    /\ UNCHANGED <<sweep_running, stop_requested, start_button, plot, wk, finishing, cvars, svars>>

\* the plot and the CSV file at the end
EarlyFinish ==
    /\ early.pc = "save"
    /\ early' = [early EXCEPT !.pc = "done"]
    /\ UNCHANGED <<sweep_running, stop_requested, start_button, plot, wk, finishing, cvars, svars>>

EarlyNext ==
    \/ \E prog \in EarlyPrograms : EarlyStart(prog)
    \/ EarlyLoop
    \/ EarlyBody
    \/ EarlyInputOff
    \/ EarlyFinish

\* the interpreter keeps running the program
SpecEarly == Init /\ [][EarlyNext]_vars /\ WF_vars(EarlyNext)

\* setpoints only grow and reach the end value when the step is positive
C30_PositiveStep ==
    (early.pc = "loop" /\ early.step > 0) ~> (early.pc \in {"after", "raised"})

(***************************************************************************)
(* C30.  In the early revisions the loop "while setpoint <= end"           *)
(* terminates for every numeric start, end and step, and INPUT OFF is      *)
(* eventually written after INPUT ON.                                      *)
(***************************************************************************)
\* the loop is left, by its condition or by an exception
LoopExits == (early.pc = "loop") ~> (early.pc \notin {"loop", "body"})

\* INPUT ON is followed by INPUT OFF, unless the instrument fails meanwhile
InputOffFollows == (early.input = "ON") ~> (early.input = "OFF" \/ early.pc = "raised")

C30_Terminates == LoopExits /\ InputOffFollows
====
